---------------------------- MODULE Spec2Model ----------------------------
(***************************************************************************)
(* The heuristic tone-analysis engine of the Local Writing Assistant       *)
(* (server/services/tone.py) and the HTTP handlers in front of it          *)
(* (server/routers/tone.py), and the token check every /api router is     *)
(* mounted behind (server/main.py); the LanguageTool service               *)
(* (server/services/languagetool.py) and the grammar handlers in front of  *)
(* it (server/routers/check.py).                                           *)
(*                                                                         *)
(* A text is a sequence of one-character strings.  Python floats are       *)
(* modelled as exact rationals [n, d] in lowest terms; a division by zero  *)
(* (ZeroDivisionError) is the value NaR, which every later operation       *)
(* propagates.                                                             *)
(***************************************************************************)
EXTENDS Integers, Sequences, FiniteSets, TLC

VARIABLES
    tone_service,   \* the ToneAnalysisService instance (its lexicons and patterns), or None
    arg_text,       \* the argument of the analyze_tone call under study
    analysis,       \* what that call returned or raised, NoCall before it
    memo,           \* per text: what its first call returned, and how many calls it had
    health,         \* what health_check returned, NoCall before it
    feature_vector, \* a feature vector handed to the scorers
    scored,         \* what the scorers return for that vector
    request,        \* the request the tone router is handed, NoCall before it
    served,         \* the texts the handler passed to tone_service.analyze_tone
    response,       \* the HTTP response to the request, NoCall before it
    environ,        \* os.environ: the environment variables that are set
    auth,           \* what verify_token did with the request, NoCall before it
    callers,        \* per thread inside get_tone_service: its position and locals
    constructions,  \* how many times ToneAnalysisService() has been evaluated
    lt_service,     \* main.lt_service: the LanguageToolService instance, or None
    lt_call         \* the last call on lt_service and how it ended, NoCall before it

engineVars == <<arg_text, analysis>>

callVars == <<memo, health>>

scorerVars == <<feature_vector, scored>>

routerVars == <<request, served, response>>

authVars == <<environ, auth>>

threadVars == <<callers, constructions>>

ltVars == <<lt_service, lt_call>>

vars == <<tone_service, arg_text, analysis, memo, health, feature_vector, scored,
          request, served, response, environ, auth, callers, constructions,
          lt_service, lt_call>>

(***************************************************************************)
(* Rational arithmetic                                                     *)
(***************************************************************************)
Abs(x) == IF x < 0 THEN -x ELSE x

RECURSIVE GCD(_, _)
GCD(a, b) == IF b = 0 THEN a ELSE GCD(b, a % b)

NaR == [n |-> 0, d |-> 0]

IsNaR(x) == x.d = 0

Rat(n, d) ==
    IF d = 0 THEN NaR
    ELSE LET g == GCD(Abs(n), Abs(d))
             s == IF d < 0 THEN -1 ELSE 1
         IN  [n |-> (s * n) \div g, d |-> (s * d) \div g]

RInt(k) == [n |-> k, d |-> 1]

RAdd(x, y) == IF IsNaR(x) \/ IsNaR(y) THEN NaR ELSE Rat(x.n * y.d + y.n * x.d, x.d * y.d)

RSub(x, y) == IF IsNaR(x) \/ IsNaR(y) THEN NaR ELSE Rat(x.n * y.d - y.n * x.d, x.d * y.d)

RMul(x, y) == IF IsNaR(x) \/ IsNaR(y) THEN NaR ELSE Rat(x.n * y.n, x.d * y.d)

\* Python's "/": raises ZeroDivisionError on a zero divisor
RDiv(x, y) == IF IsNaR(x) \/ IsNaR(y) \/ y.n = 0 THEN NaR ELSE Rat(x.n * y.d, x.d * y.n)

RLt(x, y) == ~IsNaR(x) /\ ~IsNaR(y) /\ x.n * y.d < y.n * x.d

RGt(x, y) == RLt(y, x)

RLe(x, y) == ~IsNaR(x) /\ ~IsNaR(y) /\ x.n * y.d <= y.n * x.d

RAbs(x) == [n |-> Abs(x.n), d |-> x.d]

\* Python's max(a, b) and min(a, b) on floats: the first argument unless the
\* second is strictly greater (smaller)
RMax(x, y) == IF IsNaR(x) \/ IsNaR(y) THEN NaR ELSE IF RGt(y, x) THEN y ELSE x

RMin(x, y) == IF IsNaR(x) \/ IsNaR(y) THEN NaR ELSE IF RLt(y, x) THEN y ELSE x

\* a floor that was left out: the count itself
PyMax_unfloored(a, b) == a

\* Python's max(a, b) on integers
PyMax(a, b) == IF b > a THEN b ELSE a

(***************************************************************************)
(* Characters and strings                                                  *)
(***************************************************************************)
UpperLetters == <<"A","B","C","D","E","F","G","H","I","J","K","L","M","N","O","P","Q","R","S","T","U","V","W","X","Y","Z">>

LowerLetters == <<"a","b","c","d","e","f","g","h","i","j","k","l","m","n","o","p","q","r","s","t","u","v","w","x","y","z">>

Digits == {"0","1","2","3","4","5","6","7","8","9"}

Range(s) == {s[i] : i \in DOMAIN s}

\* [A-Z]
UpperSet == Range(UpperLetters)

\* \w restricted to ASCII: [A-Za-z0-9_]
WordChars == UpperSet \cup Range(LowerLetters) \cup Digits \cup {"_"}

\* what str.strip() and str.split() treat as white space
Whitespace == {" ", "\t", "\n", "\r"}

LowerMap == [c \in UpperSet |-> LowerLetters[CHOOSE i \in DOMAIN UpperLetters : UpperLetters[i] = c]]

\* str.lower()
lower(s) == [i \in DOMAIN s |-> IF s[i] \in UpperSet THEN LowerMap[s[i]] ELSE s[i]]

\* str.strip() leaves nothing
IsBlank(s) == \A i \in DOMAIN s : s[i] \in Whitespace

\* the one element of a singleton set.  { e(x) : x \in {v} } computes v once
\* and binds x to its value, which is how the definitions below name an
\* intermediate result that is used more than once.
Only(S) == CHOOSE x \in S : TRUE

\* the k-th smallest element of a set of integers
Kth(S, k) == CHOOSE x \in S : Cardinality({y \in S : y < x}) = k - 1

\* the maximal runs in s of characters that are in cls (inside) or not in
\* cls (~inside), left to right: the k-th run goes from the k-th position
\* that starts a run to the k-th position that ends one
Runs(s, cls, inside) ==
    LET Q(i) == (s[i] \in cls) = inside
        starts == {i \in DOMAIN s : Q(i) /\ (i = 1 \/ ~Q(i - 1))}
        ends == {j \in DOMAIN s : Q(j) /\ (j = Len(s) \/ ~Q(j + 1))}
    IN  Only({ [k \in 1..Cardinality(S) |-> SubSeq(s, Kth(S, k), Kth(E, k))] :
               S \in {starts}, E \in {ends} })

\* the maximal runs of characters of cls in s, left to right
RunsIn(s, cls) == Runs(s, cls, TRUE)

\* the maximal runs of characters outside cls in s, left to right
RunsNotIn(s, cls) == Runs(s, cls, FALSE)

RECURSIVE SumLen(_, _)
SumLen(ws, i) == IF i > Len(ws) THEN 0 ELSE Len(ws[i]) + SumLen(ws, i + 1)

CountIn(ws, set) == Cardinality({i \in DOMAIN ws : ws[i] \in set})

(***************************************************************************)
(* ToneAnalysisService._load_lexicons                                      *)
(***************************************************************************)
positive_words ==
    { <<"e","x","c","e","l","l","e","n","t">>, <<"g","r","e","a","t">>, <<"a","m","a","z","i","n","g">>, <<"w","o","n","d","e","r","f","u","l">>, <<"f","a","n","t","a","s","t","i","c">>, <<"a","w","e","s","o","m","e">>,
      <<"l","o","v","e">>, <<"l","i","k","e">>, <<"e","n","j","o","y">>, <<"a","p","p","r","e","c","i","a","t","e">>, <<"p","l","e","a","s","e","d">>, <<"h","a","p","p","y">>, <<"g","l","a","d">>,
      <<"g","o","o","d">>, <<"n","i","c","e">>, <<"p","e","r","f","e","c","t">>, <<"b","r","i","l","l","i","a","n","t">>, <<"o","u","t","s","t","a","n","d","i","n","g">>, <<"s","u","p","e","r","b">>,
      <<"d","e","l","i","g","h","t","e","d">>, <<"t","h","r","i","l","l","e","d">>, <<"e","x","c","i","t","e","d">>, <<"s","a","t","i","s","f","i","e","d">>, <<"i","m","p","r","e","s","s","e","d">>,
      <<"t","h","a","n","k">>, <<"t","h","a","n","k","s">>, <<"g","r","a","t","e","f","u","l">>, <<"b","l","e","s","s","i","n","g">>, <<"f","o","r","t","u","n","a","t","e">>, <<"l","u","c","k","y">> }
negative_words ==
    { <<"t","e","r","r","i","b","l","e">>, <<"a","w","f","u","l">>, <<"h","o","r","r","i","b","l","e">>, <<"b","a","d">>, <<"w","o","r","s","t">>, <<"h","a","t","e">>, <<"d","i","s","l","i","k","e">>,
      <<"d","i","s","a","p","p","o","i","n","t","e","d">>, <<"f","r","u","s","t","r","a","t","e","d">>, <<"a","n","g","r","y">>, <<"a","n","n","o","y","e","d">>, <<"u","p","s","e","t">>, <<"s","a","d">>,
      <<"w","r","o","n","g">>, <<"p","r","o","b","l","e","m">>, <<"i","s","s","u","e">>, <<"e","r","r","o","r">>, <<"m","i","s","t","a","k","e">>, <<"f","a","i","l">>, <<"f","a","i","l","u","r","e">>,
      <<"d","i","f","f","i","c","u","l","t">>, <<"h","a","r","d">>, <<"c","h","a","l","l","e","n","g","i","n","g">>, <<"s","t","r","u","g","g","l","e">>, <<"t","r","o","u","b","l","e">>, <<"w","o","r","r","y">>,
      <<"c","o","n","c","e","r","n","e","d">>, <<"u","n","f","o","r","t","u","n","a","t","e","l","y">>, <<"r","e","g","r","e","t">>, <<"s","o","r","r","y">>, <<"a","p","o","l","o","g","i","z","e">> }
formal_words ==
    { <<"f","u","r","t","h","e","r","m","o","r","e">>, <<"m","o","r","e","o","v","e","r">>, <<"c","o","n","s","e","q","u","e","n","t","l","y">>, <<"t","h","e","r","e","f","o","r","e">>, <<"n","e","v","e","r","t","h","e","l","e","s","s">>,
      <<"n","o","t","w","i","t","h","s","t","a","n","d","i","n","g">>, <<"a","c","c","o","r","d","i","n","g","l","y">>, <<"s","u","b","s","e","q","u","e","n","t","l","y">>, <<"h","e","n","c","e","f","o","r","t","h">>,
      <<"p","u","r","s","u","a","n","t">>, <<"r","e","g","a","r","d","i","n","g">>, <<"c","o","n","c","e","r","n","i","n","g">>, <<"p","e","r","t","a","i","n","i","n","g">>, <<"w","h","e","r","e","b","y">>,
      <<"h","e","r","e","t","o","f","o","r","e">>, <<"a","f","o","r","e","m","e","n","t","i","o","n","e","d">>, <<"u","n","d","e","r","s","i","g","n","e","d">>, <<"h","e","r","e","w","i","t","h">>,
      <<"e","s","t","a","b","l","i","s","h">>, <<"f","a","c","i","l","i","t","a","t","e">>, <<"i","m","p","l","e","m","e","n","t">>, <<"u","t","i","l","i","z","e">>, <<"d","e","m","o","n","s","t","r","a","t","e">>,
      <<"i","n","d","i","c","a","t","e">>, <<"c","o","n","s","t","i","t","u","t","e">>, <<"r","e","p","r","e","s","e","n","t">>, <<"a","c","k","n","o","w","l","e","d","g","e">>, <<"e","n","d","e","a","v","o","r">> }
casual_words ==
    { <<"y","e","a","h">>, <<"y","e","p">>, <<"n","o","p","e">>, <<"g","o","n","n","a">>, <<"w","a","n","n","a">>, <<"g","o","t","t","a">>, <<"k","i","n","d","a">>, <<"s","o","r","t","a">>,
      <<"s","t","u","f","f">>, <<"t","h","i","n","g">>, <<"t","h","i","n","g","s">>, <<"g","u","y","s">>, <<"d","u","d","e">>, <<"a","w","e","s","o","m","e">>, <<"c","o","o","l">>,
      <<"s","u","p","e","r">>, <<"r","e","a","l","l","y">>, <<"p","r","e","t","t","y">>, <<"q","u","i","t","e">>, <<"t","o","t","a","l","l","y">>, <<"d","e","f","i","n","i","t","e","l","y">>,
      <<"b","a","s","i","c","a","l","l","y">>, <<"l","i","t","e","r","a","l","l","y">>, <<"a","c","t","u","a","l","l","y">>, <<"o","b","v","i","o","u","s","l","y">>, <<"s","e","r","i","o","u","s","l","y">>,
      <<"h","o","n","e","s","t","l","y">>, <<"f","r","a","n","k","l","y">>, <<"b","t","w">>, <<"f","y","i">>, <<"i","m","h","o">>, <<"t","b","h">> }
contractions ==
    { <<"w","o","n","'","t">>, <<"c","a","n","'","t">>, <<"d","o","n","'","t">>, <<"d","i","d","n","'","t">>, <<"h","a","s","n","'","t">>, <<"h","a","v","e","n","'","t">>, <<"i","s","n","'","t">>,
      <<"a","r","e","n","'","t">>, <<"w","a","s","n","'","t">>, <<"w","e","r","e","n","'","t">>, <<"s","h","o","u","l","d","n","'","t">>, <<"w","o","u","l","d","n","'","t">>, <<"c","o","u","l","d","n","'","t">>,
      <<"I","'","m">>, <<"y","o","u","'","r","e">>, <<"h","e","'","s">>, <<"s","h","e","'","s">>, <<"i","t","'","s">>, <<"w","e","'","r","e">>, <<"t","h","e","y","'","r","e">>,
      <<"I","'","v","e">>, <<"y","o","u","'","v","e">>, <<"w","e","'","v","e">>, <<"t","h","e","y","'","v","e">>, <<"I","'","d">>, <<"y","o","u","'","d">>, <<"h","e","'","d">>,
      <<"s","h","e","'","d">>, <<"w","e","'","d">>, <<"t","h","e","y","'","d">>, <<"I","'","l","l">>, <<"y","o","u","'","l","l">>, <<"h","e","'","l","l">>, <<"s","h","e","'","l","l">>,
      <<"w","e","'","l","l">>, <<"t","h","e","y","'","l","l">>, <<"t","h","a","t","'","s">>, <<"w","h","a","t","'","s">>, <<"w","h","o","'","s">>, <<"w","h","e","r","e","'","s">> }

(***************************************************************************)
(* ToneAnalysisService._compile_patterns: each pattern is kept as the      *)
(* character classes and repetition bounds of its regular expression.      *)
(***************************************************************************)
compile_patterns ==
    [ exclamation_pattern |-> [cls |-> {"!"}, min |-> 1],
      question_pattern    |-> [cls |-> {"?"}, min |-> 1],
      caps_pattern        |-> [cls |-> UpperSet, min |-> 2],
      ellipsis_pattern    |-> [cls |-> {"."}, min |-> 3],
      emoticon_pattern    |-> [eyes |-> {":", ";", "="}, nose |-> "-",
                               mouths |-> {")", "D", "(", "P", "\\", "/"}],
      word_pattern        |-> [cls |-> WordChars, min |-> 1] ]

load_lexicons ==
    [ positive_words |-> positive_words,
      negative_words |-> negative_words,
      formal_words   |-> formal_words,
      casual_words   |-> casual_words,
      contractions   |-> contractions ]

\* ToneAnalysisService.__init__: the fields of a new instance
ToneAnalysisService == [lexicons |-> load_lexicons, patterns |-> compile_patterns]

\* re.findall of a pattern c{min,} (c a character class): the maximal runs of
\* c of at least min characters
findall(pat, s) == SelectSeq(RunsIn(s, pat.cls), LAMBDA r : Len(r) >= pat.min)

\* re.findall of \b[A-Z]{2,}\b: the maximal \w runs that are all of the class
\* and at least min characters long
findall_bounded(pat, s) ==
    SelectSeq(RunsIn(s, WordChars),
              LAMBDA r : Len(r) >= pat.min /\ \A i \in DOMAIN r : r[i] \in pat.cls)

\* the length of the emoticon match starting at position i, 0 if none:
\* [:;=]-?[)D(P\\/] or its mirror [)D(P\\/]-?[:;=]
emoticon_match(pat, s, i) ==
    LET at(k) == IF k <= Len(s) THEN s[k] ELSE ""
        try(first, last) ==
            IF at(i) \notin first THEN 0
            ELSE IF at(i + 1) = pat.nose /\ at(i + 2) \in last THEN 3
            ELSE IF at(i + 1) \in last THEN 2
            ELSE 0
        m1 == try(pat.eyes, pat.mouths)
    IN  IF m1 > 0 THEN m1 ELSE try(pat.mouths, pat.eyes)

\* len(emoticon_pattern.findall(text)): the leftmost non-overlapping matches,
\* counted from position p on
RECURSIVE emoticon_findall(_, _, _, _)
emoticon_findall(pat, s, p, n) ==
    LET hits == {i \in p..Len(s) : emoticon_match(pat, s, i) > 0}
    IN  IF hits = {} THEN n
        ELSE Only({ emoticon_findall(pat, s, b + emoticon_match(pat, s, b), n + 1) :
                    b \in {Kth(hits, 1)} })

\* without the "if s.strip()" filter: whitespace-only segments count too
sentences_unfiltered(s) == RunsNotIn(s, {".", "!", "?"})

\* [s for s in re.split(r'[.!?]+', text) if s.strip()]
sentences(s) == SelectSeq(RunsNotIn(s, {".", "!", "?"}), LAMBDA seg : ~IsBlank(seg))

\* text.split()
split(s) == RunsNotIn(s, Whitespace)

(***************************************************************************)
(* ToneAnalysisService._extract_features                                   *)
(***************************************************************************)
count_features(self, text, words, tokens) ==
    LET lex == self.lexicons
        pat == self.patterns
    IN  [ word_count          |-> Len(words),
          char_count          |-> Len(text),
          sentence_count      |-> Len(sentences(text)),
          avg_word_length     |-> RDiv(RInt(SumLen(words, 1)), RInt(PyMax(Len(words), 1))),
          exclamation_count   |-> Len(findall(pat.exclamation_pattern, text)),
          question_count      |-> Len(findall(pat.question_pattern, text)),
          caps_words          |-> Len(findall_bounded(pat.caps_pattern, text)),
          ellipsis_count      |-> Len(findall(pat.ellipsis_pattern, text)),
          emoticon_count      |-> emoticon_findall(pat.emoticon_pattern, text, 1, 0),
          positive_word_count |-> CountIn(words, lex.positive_words),
          negative_word_count |-> CountIn(words, lex.negative_words),
          formal_word_count   |-> CountIn(words, lex.formal_words),
          casual_word_count   |-> CountIn(words, lex.casual_words),
          contraction_count   |-> Cardinality({i \in DOMAIN tokens :
                                                 lower(tokens[i]) \in lex.contractions}) ]

\* caps_ratio over the sentence count, as exclamation_ratio is
ratio_features_caps_per_sentence(features) ==
    LET word_count == RInt(PyMax(features.word_count, 1))
    IN  [ positive_ratio    |-> RDiv(RInt(features.positive_word_count), word_count),
          negative_ratio    |-> RDiv(RInt(features.negative_word_count), word_count),
          formal_ratio      |-> RDiv(RInt(features.formal_word_count), word_count),
          casual_ratio      |-> RDiv(RInt(features.casual_word_count), word_count),
          contraction_ratio |-> RDiv(RInt(features.contraction_count), word_count),
          caps_ratio        |-> RDiv(RInt(features.caps_words),
                                     RInt(PyMax(features.sentence_count, 1))),
          exclamation_ratio |-> RDiv(RInt(features.exclamation_count),
                                     RInt(PyMax(features.sentence_count, 1))) ]

ratio_features(features) ==
    LET word_count == RInt(PyMax(features.word_count, 1))
    IN  [ positive_ratio    |-> RDiv(RInt(features.positive_word_count), word_count),
          negative_ratio    |-> RDiv(RInt(features.negative_word_count), word_count),
          formal_ratio      |-> RDiv(RInt(features.formal_word_count), word_count),
          casual_ratio      |-> RDiv(RInt(features.casual_word_count), word_count),
          contraction_ratio |-> RDiv(RInt(features.contraction_count), word_count),
          caps_ratio        |-> RDiv(RInt(features.caps_words), word_count),
          exclamation_ratio |-> RDiv(RInt(features.exclamation_count),
                                     RInt(PyMax(features.sentence_count, 1))) ]

extract_features(self, text) ==
    Only({ features @@ ratio_features(features) :
           features \in { count_features(self, text, words, tokens) :
                          words \in {findall(self.patterns.word_pattern, lower(text))},
                          tokens \in {split(text)} } })

\* the features holding a float: a NaR among them is a raised ZeroDivisionError
FloatFeatures ==
    { "avg_word_length", "positive_ratio", "negative_ratio", "formal_ratio",
      "casual_ratio", "contraction_ratio", "caps_ratio", "exclamation_ratio" }

(***************************************************************************)
(* ToneAnalysisService._analyze_sentiment                                  *)
(***************************************************************************)
\* the capitals adjustment given to the side that is behind
sentiment_net_caps_against(features) ==
    LET pos0 == RMul(features.positive_ratio, RInt(2))
        neg0 == RMul(features.negative_ratio, RInt(2))
        caps == RGt(features.caps_ratio, Rat(1, 10))
        pos3 == IF caps /\ ~RGt(pos0, neg0) THEN RAdd(pos0, Rat(3, 10)) ELSE pos0
        neg3 == IF caps /\ RGt(pos0, neg0) THEN RAdd(neg0, Rat(3, 10)) ELSE neg0
    IN  RSub(pos3, neg3)

\* >= in the exclamation step: a tie is amplified on the positive side
sentiment_net_exclaim_ties_positive(features) ==
    LET pos0 == RMul(features.positive_ratio, RInt(2))
        neg0 == RMul(features.negative_ratio, RInt(2))
        boost == RMul(features.exclamation_ratio, Rat(1, 2))
        \* adjust for punctuation
        pos1 == IF features.exclamation_count > 0 /\ ~RGt(neg0, pos0)
                THEN RAdd(pos0, boost) ELSE pos0
        neg1 == IF features.exclamation_count > 0 /\ ~RGt(pos0, neg0) /\ RGt(neg0, pos0)
                THEN RAdd(neg0, boost) ELSE neg0
        \* adjust for emoticons
        pos2 == IF features.emoticon_count > 0 THEN RAdd(pos1, Rat(2, 10)) ELSE pos1
        \* adjust for caps
        caps == RGt(features.caps_ratio, Rat(1, 10))
        pos3 == IF caps /\ RGt(pos2, neg1) THEN RAdd(pos2, Rat(3, 10)) ELSE pos2
        neg3 == IF caps /\ ~RGt(pos2, neg1) THEN RAdd(neg1, Rat(3, 10)) ELSE neg1
    IN  RSub(pos3, neg3)

\* >= in the caps step: a tie goes to positive
sentiment_net_caps_ties_positive(features) ==
    LET pos0 == RMul(features.positive_ratio, RInt(2))
        neg0 == RMul(features.negative_ratio, RInt(2))
        boost == RMul(features.exclamation_ratio, Rat(1, 2))
        \* adjust for punctuation
        pos1 == IF features.exclamation_count > 0 /\ RGt(pos0, neg0)
                THEN RAdd(pos0, boost) ELSE pos0
        neg1 == IF features.exclamation_count > 0 /\ ~RGt(pos0, neg0) /\ RGt(neg0, pos0)
                THEN RAdd(neg0, boost) ELSE neg0
        \* adjust for emoticons
        pos2 == IF features.emoticon_count > 0 THEN RAdd(pos1, Rat(2, 10)) ELSE pos1
        \* adjust for caps
        caps == RGt(features.caps_ratio, Rat(1, 10))
        pos3 == IF caps /\ ~RGt(neg1, pos2) THEN RAdd(pos2, Rat(3, 10)) ELSE pos2
        neg3 == IF caps /\ RGt(neg1, pos2) THEN RAdd(neg1, Rat(3, 10)) ELSE neg1
    IN  RSub(pos3, neg3)

\* else in the place of elif in the exclamation step: a tie is amplified on the negative side
sentiment_net_exclaim_ties_negative(features) ==
    LET pos0 == RMul(features.positive_ratio, RInt(2))
        neg0 == RMul(features.negative_ratio, RInt(2))
        boost == RMul(features.exclamation_ratio, Rat(1, 2))
        \* adjust for punctuation
        pos1 == IF features.exclamation_count > 0 /\ RGt(pos0, neg0)
                THEN RAdd(pos0, boost) ELSE pos0
        neg1 == IF features.exclamation_count > 0 /\ ~RGt(pos0, neg0)
                THEN RAdd(neg0, boost) ELSE neg0
        \* adjust for emoticons
        pos2 == IF features.emoticon_count > 0 THEN RAdd(pos1, Rat(2, 10)) ELSE pos1
        \* adjust for caps
        caps == RGt(features.caps_ratio, Rat(1, 10))
        pos3 == IF caps /\ RGt(pos2, neg1) THEN RAdd(pos2, Rat(3, 10)) ELSE pos2
        neg3 == IF caps /\ ~RGt(pos2, neg1) THEN RAdd(neg1, Rat(3, 10)) ELSE neg1
    IN  RSub(pos3, neg3)

\* the caps step compares the scores before the emoticon bonus
sentiment_net_caps_first(features) ==
    LET pos0 == RMul(features.positive_ratio, RInt(2))
        neg0 == RMul(features.negative_ratio, RInt(2))
        boost == RMul(features.exclamation_ratio, Rat(1, 2))
        \* adjust for punctuation
        pos1 == IF features.exclamation_count > 0 /\ RGt(pos0, neg0)
                THEN RAdd(pos0, boost) ELSE pos0
        neg1 == IF features.exclamation_count > 0 /\ ~RGt(pos0, neg0) /\ RGt(neg0, pos0)
                THEN RAdd(neg0, boost) ELSE neg0
        \* adjust for emoticons
        pos2 == IF features.emoticon_count > 0 THEN RAdd(pos1, Rat(2, 10)) ELSE pos1
        \* adjust for caps
        caps == RGt(features.caps_ratio, Rat(1, 10))
        pos3 == IF caps /\ RGt(pos1, neg1) THEN RAdd(pos2, Rat(3, 10)) ELSE pos2
        neg3 == IF caps /\ ~RGt(pos1, neg1) THEN RAdd(neg1, Rat(3, 10)) ELSE neg1
    IN  RSub(pos3, neg3)

sentiment_net(features) ==
    LET pos0 == RMul(features.positive_ratio, RInt(2))
        neg0 == RMul(features.negative_ratio, RInt(2))
        boost == RMul(features.exclamation_ratio, Rat(1, 2))
        \* adjust for punctuation
        pos1 == IF features.exclamation_count > 0 /\ RGt(pos0, neg0)
                THEN RAdd(pos0, boost) ELSE pos0
        neg1 == IF features.exclamation_count > 0 /\ ~RGt(pos0, neg0) /\ RGt(neg0, pos0)
                THEN RAdd(neg0, boost) ELSE neg0
        \* adjust for emoticons
        pos2 == IF features.emoticon_count > 0 THEN RAdd(pos1, Rat(2, 10)) ELSE pos1
        \* adjust for caps
        caps == RGt(features.caps_ratio, Rat(1, 10))
        pos3 == IF caps /\ RGt(pos2, neg1) THEN RAdd(pos2, Rat(3, 10)) ELSE pos2
        neg3 == IF caps /\ ~RGt(pos2, neg1) THEN RAdd(neg1, Rat(3, 10)) ELSE neg1
    IN  RSub(pos3, neg3)

\* the two labels exchanged
analyze_sentiment_swapped(features) ==
    LET net_score == sentiment_net(features)
    IN  [ category |-> IF RGt(net_score, Rat(2, 10)) THEN "negative"
                       ELSE IF RLt(net_score, Rat(-2, 10)) THEN "positive"
                       ELSE "neutral",
          score |-> net_score ]

\* >= and <= at the category boundaries
analyze_sentiment_inclusive(features) ==
    Only({ [ category |-> IF RLe(Rat(2, 10), net_score) THEN "positive"
                          ELSE IF RLe(net_score, Rat(-2, 10)) THEN "negative"
                          ELSE "neutral",
             score |-> net_score ]
           : net_score \in {sentiment_net(features)} })

analyze_sentiment(features) ==
    Only({ [ category |-> IF RGt(net_score, Rat(2, 10)) THEN "positive"
                          ELSE IF RLt(net_score, Rat(-2, 10)) THEN "negative"
                          ELSE "neutral",
             score |-> net_score ]
           : net_score \in {sentiment_net(features)} })

(***************************************************************************)
(* ToneAnalysisService._analyze_formality                                  *)
(***************************************************************************)
\* casual_score - formal_score
formality_net_inverted(features) ==
    LET formal0 == RMul(features.formal_ratio, RInt(3))
        casual0 == RMul(features.casual_ratio, RInt(2))
        casual1 == RAdd(casual0, RMul(features.contraction_ratio, RInt(2)))
        casual2 == IF RGt(features.exclamation_ratio, Rat(1, 2))
                   THEN RAdd(casual1, Rat(1, 2)) ELSE casual1
        casual3 == IF features.ellipsis_count > 0 THEN RAdd(casual2, Rat(3, 10)) ELSE casual2
        long_words == RGt(features.avg_word_length, Rat(55, 10))
        short_words == ~long_words /\ RLt(features.avg_word_length, RInt(4))
        formal1 == IF long_words THEN RAdd(formal0, Rat(1, 2)) ELSE formal0
        casual4 == IF short_words THEN RAdd(casual3, Rat(3, 10)) ELSE casual3
        measured == features.word_count > 0 /\ features.sentence_count > 0
        avg_sentence_length == RDiv(RInt(features.word_count), RInt(features.sentence_count))
        long_sentences == measured /\ RGt(avg_sentence_length, RInt(15))
        short_sentences == measured /\ ~long_sentences /\ RLt(avg_sentence_length, RInt(8))
        formal2 == IF long_sentences THEN RAdd(formal1, Rat(4, 10)) ELSE formal1
        casual5 == IF short_sentences THEN RAdd(casual4, Rat(3, 10)) ELSE casual4
    IN  IF measured /\ IsNaR(avg_sentence_length) THEN NaR ELSE RSub(casual5, formal2)

\* the sentence-length step guarded by sentence_count alone
formality_net_any_sentence(features) ==
    LET formal0 == RMul(features.formal_ratio, RInt(3))
        casual0 == RMul(features.casual_ratio, RInt(2))
        casual1 == RAdd(casual0, RMul(features.contraction_ratio, RInt(2)))
        casual2 == IF RGt(features.exclamation_ratio, Rat(1, 2))
                   THEN RAdd(casual1, Rat(1, 2)) ELSE casual1
        casual3 == IF features.ellipsis_count > 0 THEN RAdd(casual2, Rat(3, 10)) ELSE casual2
        long_words == RGt(features.avg_word_length, Rat(55, 10))
        short_words == ~long_words /\ RLt(features.avg_word_length, RInt(4))
        formal1 == IF long_words THEN RAdd(formal0, Rat(1, 2)) ELSE formal0
        casual4 == IF short_words THEN RAdd(casual3, Rat(3, 10)) ELSE casual3
        measured == features.sentence_count > 0
        avg_sentence_length == RDiv(RInt(features.word_count), RInt(features.sentence_count))
        long_sentences == measured /\ RGt(avg_sentence_length, RInt(15))
        short_sentences == measured /\ ~long_sentences /\ RLt(avg_sentence_length, RInt(8))
        formal2 == IF long_sentences THEN RAdd(formal1, Rat(4, 10)) ELSE formal1
        casual5 == IF short_sentences THEN RAdd(casual4, Rat(3, 10)) ELSE casual4
    IN  IF measured /\ IsNaR(avg_sentence_length) THEN NaR ELSE RSub(formal2, casual5)

\* every word-length and exclamation threshold met by equality as well
formality_net_inclusive(features) ==
    LET formal0 == RMul(features.formal_ratio, RInt(3))
        casual0 == RMul(features.casual_ratio, RInt(2))
        casual1 == RAdd(casual0, RMul(features.contraction_ratio, RInt(2)))
        casual2 == IF RLe(Rat(1, 2), features.exclamation_ratio)
                   THEN RAdd(casual1, Rat(1, 2)) ELSE casual1
        casual3 == IF features.ellipsis_count > 0 THEN RAdd(casual2, Rat(3, 10)) ELSE casual2
        long_words == RLe(Rat(55, 10), features.avg_word_length)
        short_words == ~long_words /\ RLe(features.avg_word_length, RInt(4))
        formal1 == IF long_words THEN RAdd(formal0, Rat(1, 2)) ELSE formal0
        casual4 == IF short_words THEN RAdd(casual3, Rat(3, 10)) ELSE casual3
        measured == features.word_count > 0 /\ features.sentence_count > 0
        avg_sentence_length == RDiv(RInt(features.word_count), RInt(features.sentence_count))
        long_sentences == measured /\ RGt(avg_sentence_length, RInt(15))
        short_sentences == measured /\ ~long_sentences /\ RLt(avg_sentence_length, RInt(8))
        formal2 == IF long_sentences THEN RAdd(formal1, Rat(4, 10)) ELSE formal1
        casual5 == IF short_sentences THEN RAdd(casual4, Rat(3, 10)) ELSE casual4
    IN  IF measured /\ IsNaR(avg_sentence_length) THEN NaR ELSE RSub(formal2, casual5)

formality_net(features) ==
    LET formal0 == RMul(features.formal_ratio, RInt(3))
        casual0 == RMul(features.casual_ratio, RInt(2))
        casual1 == RAdd(casual0, RMul(features.contraction_ratio, RInt(2)))
        casual2 == IF RGt(features.exclamation_ratio, Rat(1, 2))
                   THEN RAdd(casual1, Rat(1, 2)) ELSE casual1
        casual3 == IF features.ellipsis_count > 0 THEN RAdd(casual2, Rat(3, 10)) ELSE casual2
        long_words == RGt(features.avg_word_length, Rat(55, 10))
        short_words == ~long_words /\ RLt(features.avg_word_length, RInt(4))
        formal1 == IF long_words THEN RAdd(formal0, Rat(1, 2)) ELSE formal0
        casual4 == IF short_words THEN RAdd(casual3, Rat(3, 10)) ELSE casual3
        measured == features.word_count > 0 /\ features.sentence_count > 0
        avg_sentence_length == RDiv(RInt(features.word_count), RInt(features.sentence_count))
        long_sentences == measured /\ RGt(avg_sentence_length, RInt(15))
        short_sentences == measured /\ ~long_sentences /\ RLt(avg_sentence_length, RInt(8))
        formal2 == IF long_sentences THEN RAdd(formal1, Rat(4, 10)) ELSE formal1
        casual5 == IF short_sentences THEN RAdd(casual4, Rat(3, 10)) ELSE casual4
    IN  IF measured /\ IsNaR(avg_sentence_length) THEN NaR ELSE RSub(formal2, casual5)

\* the two labels exchanged
analyze_formality_swapped(features) ==
    LET net_score == formality_net(features)
    IN  [ category |-> IF RGt(net_score, Rat(1, 2)) THEN "casual"
                       ELSE IF RLt(net_score, Rat(-1, 2)) THEN "formal"
                       ELSE "neutral",
          score |-> net_score ]

analyze_formality(features) ==
    Only({ [ category |-> IF RGt(net_score, Rat(1, 2)) THEN "formal"
                          ELSE IF RLt(net_score, Rat(-1, 2)) THEN "casual"
                          ELSE "neutral",
             score |-> net_score ]
           : net_score \in {formality_net(features)} })

(***************************************************************************)
(* ToneAnalysisService._calculate_confidence                               *)
(***************************************************************************)
\* a clamp that lost its lower bound
clamp_confidence_no_floor(overall_confidence) == RMin(overall_confidence, RInt(1))

\* min(max(overall_confidence, 0.1), 1.0)
clamp_confidence(overall_confidence) ==
    RMin(RMax(overall_confidence, Rat(1, 10)), RInt(1))

\* the two weights exchanged
calculate_confidence_weights_swapped(features, sentiment_score, formality_score) ==
    LET length_confidence == RMin(RDiv(RInt(features.word_count), RInt(50)), RInt(1))
        sentiment_strength == RAbs(sentiment_score)
        formality_strength == RAbs(formality_score)
        feature_confidence == RDiv(RAdd(sentiment_strength, formality_strength), RInt(2))
        overall_confidence == RAdd(RMul(length_confidence, Rat(4, 10)),
                                   RMul(feature_confidence, Rat(6, 10)))
    IN  clamp_confidence(overall_confidence)

calculate_confidence(features, sentiment_score, formality_score) ==
    LET length_confidence == RMin(RDiv(RInt(features.word_count), RInt(50)), RInt(1))
        sentiment_strength == RAbs(sentiment_score)
        formality_strength == RAbs(formality_score)
        feature_confidence == RDiv(RAdd(sentiment_strength, formality_strength), RInt(2))
        overall_confidence == RAdd(RMul(length_confidence, Rat(6, 10)),
                                   RMul(feature_confidence, Rat(4, 10)))
    IN  clamp_confidence(overall_confidence)

(***************************************************************************)
(* ToneAnalysisService.analyze_tone.  The value returned, or the exception *)
(* raised; calls lists the methods of the service that the call ran.       *)
(***************************************************************************)
NoFeatures == [k \in {} |-> 0]

ToneAnalysis(sentiment, formality, sentiment_score, formality_score, confidence, features, calls) ==
    [ raised |-> "", sentiment |-> sentiment, formality |-> formality,
      scores |-> [sentiment |-> sentiment_score, formality |-> formality_score],
      confidence |-> confidence, features |-> features, calls |-> calls ]

Raise(exception, calls) == [raised |-> exception, calls |-> calls]

\* the result analyze_tone builds from the two scorers' results, or the
\* ZeroDivisionError raised on the way
tone_result(features, s, f, confidence) ==
    IF \E k \in FloatFeatures : IsNaR(features[k])
    THEN Raise("ZeroDivisionError", <<"_extract_features">>)
    ELSE IF IsNaR(f.score)
    THEN Raise("ZeroDivisionError",
               <<"_extract_features", "_analyze_sentiment", "_analyze_formality">>)
    ELSE ToneAnalysis(s.category, f.category, s.score, f.score, confidence, features,
                      <<"_extract_features", "_analyze_sentiment",
                        "_analyze_formality", "_calculate_confidence">>)

score_features(features) ==
    Only({ tone_result(features, s, f, calculate_confidence(features, s.score, f.score))
           : s \in {analyze_sentiment(features)}, f \in {analyze_formality(features)} })

\* the blank test without strip(): only the empty string short-circuits
analyze_tone_no_strip(self, text) ==
    IF text = <<>>
    THEN ToneAnalysis("neutral", "neutral", RInt(0), RInt(0), RInt(0), NoFeatures, <<>>)
    ELSE Only({ score_features(features) : features \in {extract_features(self, text)} })

analyze_tone(self, text) ==
    IF IsBlank(text)
    THEN ToneAnalysis("neutral", "neutral", RInt(0), RInt(0), RInt(0), NoFeatures, <<>>)
    ELSE Only({ score_features(features) : features \in {extract_features(self, text)} })

(***************************************************************************)
(* The engine on its own: one analyze_tone call on each input text.        *)
(***************************************************************************)
\* the module global _tone_service before its first use
None == [none |-> TRUE]

\* no call has returned yet
NoCall == [called |-> FALSE]

MaxAtoms == 3

MaxFormalWords == 17

Atoms ==
    { <<"A","W","E","S","O","M","E">>, <<"b","a","d">>, <<"u","t","i","l","i","z","e">>,
      <<"d","o","n","'","t">>, <<"I","'","m">>, <<"g","o","o","d">>, <<"O","K">>,
      <<" ">>, <<"!">>, <<".">>, <<"?">>, <<":",")">> }

RECURSIVE Concat(_)
Concat(parts) == IF parts = <<>> THEN <<>> ELSE Head(parts) \o Concat(Tail(parts))

\* every text made of at most MaxAtoms atoms
AtomTexts == UNION { {Concat(parts) : parts \in [1..k -> Atoms]} : k \in 0..MaxAtoms }

\* n words, alternately a and b, joined by sep and closed by end
RECURSIVE Alternate(_, _, _, _)
Alternate(a, b, sep, n) ==
    IF n = 1 THEN a ELSE Alternate(a, b, sep, n - 1) \o sep \o (IF n % 2 = 1 THEN a ELSE b)

\* pairs of words: formal ones of 7 and 14 letters, upper case, and "the"
SampleWords ==
    { << <<"w","h","e","r","e","b","y">>, <<"U","T","I","L","I","Z","E">> >>,
      << <<"a","f","o","r","e","m","e","n","t","i","o","n","e","d">>, <<"w","h","e","r","e","b","y">> >>,
      << <<"w","h","e","r","e","b","y">>, <<"t","h","e">> >>,
      << <<"t","h","e">>, <<"t","h","e">> >> }

SentenceTexts ==
    { Alternate(w[1], w[2], sep, n) \o end :
        w \in SampleWords, sep \in {<<" ">>, <<",", " ">>},
        n \in 1..MaxFormalWords, end \in {<<>>, <<".">>, <<"!">>} }

\* "yeah gonna be kinda late lol"
CasualExample ==
    <<"y","e","a","h"," ","g","o","n","n","a"," ","b","e"," ","k","i","n","d","a"," ",
      "l","a","t","e"," ","l","o","l">>

\* texts of 49, 50 and 51 words, around the word count that gives full
\* length confidence
LongTexts ==
    { Alternate(w[1], w[2], <<" ">>, n) \o end :
        w \in SampleWords, n \in 49..51, end \in {<<>>, <<"!">>} }

MaxMarks == 5

\* every text of at most MaxMarks characters over a letter, a space and two
\* of the sentence separators
MarkTexts == UNION { [1..n -> {"a", " ", "!", "."}] : n \in 1..MaxMarks }

\* every stored contraction as a text of its own, and after a word
ContractionTexts ==
    contractions \cup { <<"s", "o", " ">> \o c : c \in contractions }

TextInputs == AtomTexts \cup SentenceTexts \cup {CasualExample} \cup LongTexts \cup MarkTexts
    \cup ContractionTexts

\* the variables of the parts of the program a specification leaves out
IdleCalls == memo = <<>> /\ health = NoCall

IdleScorers == feature_vector = NoFeatures /\ scored = NoCall

IdleRouter == request = NoCall /\ served = <<>> /\ response = NoCall

\* no environment variable read, no request checked
IdleAuth == environ = <<>> /\ auth = NoCall

\* no thread inside get_tone_service
IdleThreads == callers = <<>> /\ constructions = 0

\* the lifespan has not started: no LanguageToolService yet
IdleLanguageTool == lt_service = None /\ lt_call = NoCall

InitEngine ==
    /\ tone_service = ToneAnalysisService
    /\ arg_text \in TextInputs
    /\ analysis = NoCall
    /\ IdleCalls
    /\ IdleScorers
    /\ IdleRouter
    /\ IdleAuth
    /\ IdleThreads
    /\ IdleLanguageTool

\* tone_service.analyze_tone(text)
AnalyzeTone ==
    /\ analysis = NoCall
    /\ analysis' = analyze_tone(tone_service, arg_text)
    /\ UNCHANGED <<tone_service, arg_text, callVars, scorerVars, routerVars, authVars, threadVars, ltVars>>

NextEngine == AnalyzeTone

SpecEngine == InitEngine /\ [][NextEngine]_vars

(***************************************************************************)
(* Properties of one analyze_tone call (SpecEngine)                        *)
(***************************************************************************)
Returned == analysis # NoCall /\ analysis.raised = ""

\* C1: analyze_tone returns, with a confidence in [0.1, 1.0] when
\* text.strip() is non-empty and a confidence of exactly 0.0 when it is empty
\* (so 0.0 when and only when the text is blank).
C1_ConfidenceRange ==
    analysis # NoCall =>
        /\ analysis.raised = ""
        /\ IF IsBlank(arg_text)
           THEN analysis.confidence = RInt(0)
           ELSE RLe(Rat(1, 10), analysis.confidence) /\ RLe(analysis.confidence, RInt(1))

\* "?" has no word and no sentence: its raw confidence 0.06 is raised to 0.1
C1_Witness ==
    /\ Returned
    /\ arg_text = <<"?">>
    /\ analysis.confidence = Rat(1, 10)

\* C2: for an empty or whitespace-only text analyze_tone returns exactly
\* neutral/neutral, scores 0.0/0.0, confidence 0.0 and an empty feature map,
\* and runs neither the feature extraction nor a scorer.
C2_BlankResult ==
    (analysis # NoCall /\ IsBlank(arg_text)) =>
        analysis = [ raised |-> "", sentiment |-> "neutral", formality |-> "neutral",
                     scores |-> [sentiment |-> RInt(0), formality |-> RInt(0)],
                     confidence |-> RInt(0), features |-> <<>>, calls |-> <<>> ]

C2_Witness ==
    /\ Returned
    /\ arg_text = <<" ", " ">>
    /\ analysis.calls = <<>>

\* C3: analyze_tone is total: every call returns (no ZeroDivisionError, each
\* divisor being at least 1 where it divides) with a sentiment among
\* positive/neutral/negative and a formality among formal/neutral/casual.
C3_Total ==
    analysis # NoCall =>
        /\ analysis.raised = ""
        /\ analysis.sentiment \in {"positive", "neutral", "negative"}
        /\ analysis.formality \in {"formal", "neutral", "casual"}
        /\ ~IsBlank(arg_text) =>
              /\ \A k \in FloatFeatures : ~IsNaR(analysis.features[k])
              /\ ~IsNaR(analysis.scores.formality)

\* "!!!" has zero word tokens and zero sentences
C3_Witness ==
    /\ Returned
    /\ arg_text = <<"!", "!", "!">>
    /\ analysis.features.word_count = 0
    /\ analysis.features.sentence_count = 0
    /\ analysis.formality = "casual"

\* the case of C10: one sentence of more than 15 words, every word in the
\* formal lexicon, no casual word, contraction, exclamation mark or ellipsis
FormalSentence(features) ==
    /\ features.sentence_count = 1
    /\ features.word_count > 15
    /\ features.formal_word_count = features.word_count
    /\ features.casual_word_count = 0
    /\ features.contraction_count = 0
    /\ features.exclamation_count = 0
    /\ features.ellipsis_count = 0

\* C10: a single sentence of more than 15 words, all of the formal lexicon
\* and without casual markers, is classified formal.
C10_FormalSentenceIsFormal ==
    (Returned /\ ~IsBlank(arg_text) /\ FormalSentence(analysis.features)) =>
        analysis.formality = "formal"

C10_Witness ==
    /\ Returned
    /\ ~IsBlank(arg_text)
    /\ FormalSentence(analysis.features)
    /\ analysis.features.word_count = 16
    /\ analysis.formality = "formal"

\* analyze_tone returned for a non-blank text: the result has features
Scored == Returned /\ ~IsBlank(arg_text)

\* C11: analyze_tone("yeah gonna be kinda late lol") is casual and neutral,
\* with a sentiment net score of exactly 0.
C11_CasualExample ==
    (Returned /\ arg_text = CasualExample) =>
        /\ analysis.formality = "casual"
        /\ analysis.sentiment = "neutral"
        /\ analysis.scores.sentiment = RInt(0)

\* three of the six words are in the casual lexicon ("lol" is not); the
\* formality net is -1.6
C11_Witness ==
    /\ Returned
    /\ arg_text = CasualExample
    /\ analysis.features.word_count = 6
    /\ analysis.features.casual_word_count = 3
    /\ analysis.scores.formality = Rat(-8, 5)
    /\ analysis.formality = "casual"

NoSentimentWord(features) ==
    features.positive_word_count = 0 /\ features.negative_word_count = 0

C18_EmoticonBeforeCaps ==
    (Scored /\ analysis.features.positive_ratio = analysis.features.negative_ratio
            /\ analysis.features.emoticon_count > 0
            /\ RGt(analysis.features.caps_ratio, Rat(1, 10))) =>
        /\ analysis.scores.sentiment = Rat(1, 2)
        /\ analysis.sentiment = "positive"

\* "OK!:)": an all-caps word, an exclamation mark and an emoticon
C18_Witness ==
    /\ Scored
    /\ arg_text = <<"O", "K", "!", ":", ")">>
    /\ analysis.features.exclamation_count = 1
    /\ analysis.features.emoticon_count = 1
    /\ NoSentimentWord(analysis.features)
    /\ analysis.scores.sentiment = Rat(1, 2)

FormalityBySteps(features, measured) ==
    LET If(cond, x) == IF cond THEN x ELSE RInt(0)
        long_words == RGt(features.avg_word_length, Rat(55, 10))
        formal4 == RAdd(RMul(features.formal_ratio, RInt(3)), If(long_words, Rat(1, 2)))
        casual4 ==
            RAdd(RAdd(RMul(features.casual_ratio, RInt(2)),
                      RMul(features.contraction_ratio, RInt(2))),
                 RAdd(If(RGt(features.exclamation_ratio, Rat(1, 2)), Rat(1, 2)),
                      RAdd(If(features.ellipsis_count > 0, Rat(3, 10)),
                           If(~long_words /\ RLt(features.avg_word_length, RInt(4)),
                              Rat(3, 10)))))
        long_sentences == measured /\ features.word_count > 15 * features.sentence_count
        short_sentences ==
            measured /\ ~long_sentences /\ features.word_count < 8 * features.sentence_count
    IN  RSub(RAdd(formal4, If(long_sentences, Rat(4, 10))),
             RAdd(casual4, If(short_sentences, Rat(3, 10))))

\* C20 as stated: the sentence-length step runs whenever sentence_count > 0
\* and is skipped only when sentence_count = 0, so a text of one segment
\* and no word gets casual += 0.3 from it.
C20_SentenceStepWheneverSentences ==
    Scored =>
        analysis.scores.formality =
            FormalityBySteps(analysis.features, analysis.features.sentence_count > 0)

\* C20 (amended): the sentence-length step runs when word_count > 0 and
\* sentence_count > 0 and is skipped when either is 0: a non-blank text of
\* one segment and no word token (only an emoticon) gets nothing from it.
C20_SentenceStepNeedsWords ==
    Scored =>
        /\ analysis.scores.formality =
               FormalityBySteps(analysis.features,
                                analysis.features.word_count > 0
                                    /\ analysis.features.sentence_count > 0)
        /\ (analysis.features.word_count = 0 /\ analysis.features.sentence_count > 0) =>
               analysis.scores.formality = FormalityBySteps(analysis.features, FALSE)

\* ":)": one segment, no word; casual is the 0.3 of the short-word step alone
C20_Witness ==
    /\ Scored
    /\ arg_text = <<":", ")">>
    /\ analysis.features.word_count = 0
    /\ analysis.features.sentence_count = 1
    /\ analysis.scores.formality = Rat(-3, 10)
    /\ analysis.formality = "neutral"

\* exclamation_ratio * 0.5 when the text has an exclamation mark
ExclamationBoost(features) ==
    IF features.exclamation_count > 0
    THEN RMul(features.exclamation_ratio, Rat(1, 2)) ELSE RInt(0)

\* C15: with exclamation_count > 0, exclamation_ratio * 0.5 goes to positive
\* when positive is strictly greater, to negative when negative is strictly
\* greater, to neither when they are equal (seen on the net of a text whose
\* emoticon and caps steps do not apply); so a text without positive or
\* negative word, without emoticon and with caps_ratio <= 0.1 has net
\* exactly 0, neutral, however many exclamation marks it has.
C15_ExclamationStep ==
    (Scored /\ analysis.features.emoticon_count = 0
            /\ RLe(analysis.features.caps_ratio, Rat(1, 10))) =>
        LET features == analysis.features
            positive == RMul(features.positive_ratio, RInt(2))
            negative == RMul(features.negative_ratio, RInt(2))
        IN  /\ analysis.scores.sentiment =
                   IF RGt(positive, negative)
                   THEN RSub(RAdd(positive, ExclamationBoost(features)), negative)
                   ELSE IF RGt(negative, positive)
                   THEN RSub(positive, RAdd(negative, ExclamationBoost(features)))
                   ELSE RInt(0)
            /\ NoSentimentWord(features) =>
                   /\ analysis.scores.sentiment = RInt(0)
                   /\ analysis.sentiment = "neutral"

\* "!utilize!": two runs of exclamation marks, no sentiment word
C15_Witness ==
    /\ Scored
    /\ arg_text = <<"!", "u", "t", "i", "l", "i", "z", "e", "!">>
    /\ analysis.features.exclamation_count = 2
    /\ analysis.features.exclamation_ratio = RInt(2)
    /\ analysis.scores.sentiment = RInt(0)
    /\ analysis.sentiment = "neutral"

Tie(features) == features.positive_ratio = features.negative_ratio

\* C17 as stated: on exact equality both the exclamation step and the caps
\* step amplify the negative side.
C17_TiesGoNegative ==
    (Scored /\ Tie(analysis.features) /\ analysis.features.emoticon_count = 0) =>
        analysis.scores.sentiment =
            RSub(RInt(0),
                 RAdd(ExclamationBoost(analysis.features),
                      IF RGt(analysis.features.caps_ratio, Rat(1, 10))
                      THEN Rat(3, 10) ELSE RInt(0)))

\* C17 (amended): on exact equality the caps step amplifies the negative
\* side and the exclamation step amplifies neither side.
C17_CapsTieNegativeExclamationTieNone ==
    (Scored /\ Tie(analysis.features) /\ analysis.features.emoticon_count = 0) =>
        analysis.scores.sentiment =
            IF RGt(analysis.features.caps_ratio, Rat(1, 10)) THEN Rat(-3, 10) ELSE RInt(0)

\* "OK!": a tie (no sentiment word), an exclamation mark and capitals
C17_Witness ==
    /\ Scored
    /\ arg_text = <<"O", "K", "!">>
    /\ Tie(analysis.features)
    /\ analysis.features.exclamation_count = 1
    /\ RGt(analysis.features.caps_ratio, Rat(1, 10))
    /\ analysis.scores.sentiment = Rat(-3, 10)

\* the features that are counts
CountFeatures ==
    { "word_count", "char_count", "sentence_count", "exclamation_count", "question_count",
      "caps_words", "ellipsis_count", "emoticon_count", "positive_word_count",
      "negative_word_count", "formal_word_count", "casual_word_count", "contraction_count" }

\* the ratios over the word count, each with the count it is the ratio of
WordRatios ==
    [ positive_ratio    |-> "positive_word_count",
      negative_ratio    |-> "negative_word_count",
      formal_ratio      |-> "formal_word_count",
      casual_ratio      |-> "casual_word_count",
      contraction_ratio |-> "contraction_count",
      caps_ratio        |-> "caps_words" ]

\* C22: for a non-blank text every count is a non-negative integer, every
\* ratio is its count over a denominator of at least 1, and the six ratios
\* over the word count lie in [0, 1]; exclamation_ratio (exclamation runs
\* over sentence count) is the only one that can exceed 1.
C22_FeatureRanges ==
    Scored =>
        LET f == analysis.features
            at_least_1(n) == IF n < 1 THEN 1 ELSE n
        IN  /\ \A k \in CountFeatures : f[k] \in Nat
            /\ \A r \in DOMAIN WordRatios :
                   /\ f[r] = RDiv(RInt(f[WordRatios[r]]), RInt(at_least_1(f.word_count)))
                   /\ RLe(RInt(0), f[r])
                   /\ RLe(f[r], RInt(1))
            /\ f.exclamation_ratio =
                   RDiv(RInt(f.exclamation_count), RInt(at_least_1(f.sentence_count)))
            /\ RLe(RInt(0), f.exclamation_ratio)
            /\ RLe(RInt(0), f.avg_word_length)

\* "!OK!": two exclamation runs around one sentence of one word in capitals
C22_Witness ==
    /\ Scored
    /\ arg_text = <<"!", "O", "K", "!">>
    /\ analysis.features.exclamation_ratio = RInt(2)
    /\ analysis.features.caps_ratio = RInt(1)

\* the positions where a maximal run of c starts
RunStarts(s, c) == { i \in DOMAIN s : s[i] = c /\ (i = 1 \/ s[i - 1] # c) }

\* the positions of the first non-whitespace character of each segment
\* between the runs of '.', '!' and '?'
SegmentStarts(s) ==
    LET Separator(i) == s[i] \in {".", "!", "?"}
        Visible(i) == ~Separator(i) /\ s[i] \notin Whitespace
    IN  { i \in DOMAIN s :
            /\ Visible(i)
            /\ \A j \in 1..(i - 1) : Visible(j) => \E k \in (j + 1)..(i - 1) : Separator(k) }

\* C23: exclamation_count is the number of maximal runs of '!' (a run of any
\* length counts once, two runs separated by another character count twice),
\* sentence_count is the number of segments holding a non-whitespace
\* character after splitting on the maximal runs of '.', '!' and '?', and
\* exclamation_ratio = exclamation_count / max(sentence_count, 1).
C23_RunsAndSegments ==
    Scored =>
        LET f == analysis.features
            runs == Cardinality(RunStarts(arg_text, "!"))
            segments == Cardinality(SegmentStarts(arg_text))
        IN  /\ f.exclamation_count = runs
            /\ f.sentence_count = segments
            /\ f.exclamation_ratio = RDiv(RInt(runs), RInt(IF segments > 1 THEN segments ELSE 1))

\* "!!bad!": a run of two and a run of one around one segment
C23_Witness ==
    /\ Scored
    /\ Len(arg_text) >= 3
    /\ arg_text[1] = "!" /\ arg_text[2] = "!" /\ arg_text[Len(arg_text)] = "!"
    /\ analysis.features.exclamation_count = 2
    /\ analysis.features.sentence_count = 1
    /\ analysis.features.exclamation_ratio = RInt(2)

\* the whitespace-delimited tokens of the text that are stored in the
\* contraction lexicon, as stored
StoredContractions(text) ==
    LET tokens == split(text)
    IN  { i \in DOMAIN tokens : tokens[i] \in contractions }

\* C24: every contraction surface form stored in the contraction lexicon
\* ("won't", "I'm", "they'll", ...), when it appears in the text as a
\* whitespace-delimited token, increases contraction_count by one.
C24_StoredContractionsCount ==
    Scored =>
        analysis.features.contraction_count = Cardinality(StoredContractions(arg_text))


\* the four word lexicons of the service
WordLexicons == {"positive_words", "negative_words", "formal_words", "casual_words"}

\* the word tokens of the text: \b\w+\b on its lower-cased form
WordTokens(text) == Range(findall(tone_service.patterns.word_pattern, lower(text)))

\* C25: the positive, negative, formal and casual lexicons are pairwise
\* disjoint and hold lower-case strings only, so a word token of the analysed
\* text contributes to at most one of the four word counts.
C25_LexiconsDisjoint ==
    Scored =>
        LET lex == tone_service.lexicons
        IN  /\ \A a \in WordLexicons : \A w \in lex[a] : lower(w) = w
            /\ \A a, b \in WordLexicons : a # b => lex[a] \cap lex[b] = {}
            /\ \A w \in WordTokens(arg_text) :
                   Cardinality({ a \in WordLexicons : w \in lex[a] }) <= 1

(***************************************************************************)
(* One service instance used for many calls: analyze_tone on any of a few  *)
(* texts, in any order and any number of times, and health_check.          *)
(***************************************************************************)
MaxCallsPerText == 2

CallTexts ==
    { <<>>,
      <<"g","r","e","a","t"," ","j","o","b">>,
      <<"A","W","E","S","O","M","E","!">>,
      <<"d","o","n","'","t"," ",":",")">> }

\* "I'm really excited about this amazing opportunity!"
test_text ==
    <<"I","'","m"," ","r","e","a","l","l","y"," ","e","x","c","i","t","e","d"," ",
      "a","b","o","u","t"," ","t","h","i","s"," ","a","m","a","z","i","n","g"," ",
      "o","p","p","o","r","t","u","n","i","t","y","!">>

\* an analyze_tone that keeps what it saw: the words of the text join the
\* positive lexicon
self_learning(self, text) ==
    [self EXCEPT !.lexicons.positive_words =
        @ \cup Range(findall(self.patterns.word_pattern, lower(text)))]

\* an analyze_tone that lower-cases the stored contractions on its way
self_normalising(self, text) ==
    [self EXCEPT !.lexicons.contractions = { lower(c) : c \in @ }]

\* the instance after analyze_tone(text): the method assigns no attribute
self_after_analyze_tone(self, text) == self

\* ToneAnalysisService.health_check: (test_passed, details), or (False,
\* details with the error) when the analysis raised
health_check_of(self, a) ==
    LET details == [ lexicons_loaded |-> TRUE, patterns_compiled |-> TRUE,
                     positive_words |-> Cardinality(self.lexicons.positive_words),
                     negative_words |-> Cardinality(self.lexicons.negative_words),
                     formal_words |-> Cardinality(self.lexicons.formal_words),
                     casual_words |-> Cardinality(self.lexicons.casual_words) ]
    IN  IF a.raised # ""
        THEN [healthy |-> FALSE, details |-> details @@ [error |-> a.raised]]
        ELSE LET test_passed == a.sentiment = "positive" /\ RGt(a.confidence, Rat(3, 10))
             IN  [ healthy |-> test_passed,
                   details |-> details @@
                       [ test_input |-> test_text, test_sentiment |-> a.sentiment,
                         test_formality |-> a.formality, test_confidence |-> a.confidence,
                         test_passed |-> test_passed ] ]

health_check(self) == Only({ health_check_of(self, a) : a \in {analyze_tone(self, test_text)} })

InitCalls ==
    /\ tone_service = ToneAnalysisService
    /\ arg_text = <<>>
    /\ analysis = NoCall
    /\ memo = [t \in CallTexts |-> [first |-> NoCall, n |-> 0]]
    /\ health = NoCall
    /\ IdleScorers
    /\ IdleRouter
    /\ IdleAuth
    /\ IdleThreads
    /\ IdleLanguageTool

\* tone_service.analyze_tone(t)
Call(t) ==
    /\ memo[t].n < MaxCallsPerText
    /\ arg_text' = t
    /\ analysis' = analyze_tone(tone_service, t)
    /\ tone_service' = self_after_analyze_tone(tone_service, t)
    /\ memo' = [memo EXCEPT ![t] = [first |-> IF @.n = 0 THEN analysis' ELSE @.first,
                                    n |-> @.n + 1]]
    /\ UNCHANGED <<health, scorerVars, routerVars, authVars, threadVars, ltVars>>

\* tone_service.health_check()
HealthCheck ==
    /\ health = NoCall
    /\ health' = health_check(tone_service)
    /\ tone_service' = self_after_analyze_tone(tone_service, test_text)
    /\ UNCHANGED <<engineVars, memo, scorerVars, routerVars, authVars, threadVars, ltVars>>

NextCalls == (\E t \in CallTexts : Call(t)) \/ HealthCheck

SpecCalls == InitCalls /\ [][NextCalls]_vars

C9_HealthCheckPasses ==
    health # NoCall =>
        /\ health.healthy
        /\ health.details.test_passed
        /\ health.details.test_sentiment = "positive"
        /\ RGt(health.details.test_confidence, Rat(3, 10))

\* the confidence is 0.446
C9_Witness ==
    /\ health # NoCall
    /\ health.healthy
    /\ health.details.test_confidence = Rat(223, 500)

\* C26: after construction no operation (analyze_tone, health_check) adds
\* to, removes from or replaces the five lexicon sets or the compiled
\* patterns: in every reachable state they are what __init__ loaded.
C26_LexiconsUnchanged ==
    /\ tone_service.lexicons = load_lexicons
    /\ tone_service.patterns = compile_patterns
    /\ DOMAIN tone_service = {"lexicons", "patterns"}

\* every text analysed as often as the bound allows, and the health check run
C26_Witness ==
    /\ health # NoCall
    /\ \A t \in CallTexts : memo[t].n = MaxCallsPerText
    /\ analysis # NoCall

(***************************************************************************)
(* The scorers on feature vectors.  A vector is what _extract_features     *)
(* builds: counts, and the ratios derived from them.  Here the text has    *)
(* words of five letters, none of them formal or casual.                   *)
(***************************************************************************)
MaxWords == 4

MaxSentences == 2

MaxExclamations == 2

MaxEmoticons == 1

FeatureVector(words, sentence_count, positive, negative, exclamations, emoticons, caps) ==
    LET counts ==
            [ word_count          |-> words,
              char_count          |-> 6 * words + exclamations + 2 * emoticons,
              sentence_count      |-> sentence_count,
              avg_word_length     |-> RDiv(RInt(5 * words), RInt(PyMax(words, 1))),
              exclamation_count   |-> exclamations,
              question_count      |-> 0,
              caps_words          |-> caps,
              ellipsis_count      |-> 0,
              emoticon_count      |-> emoticons,
              positive_word_count |-> positive,
              negative_word_count |-> negative,
              formal_word_count   |-> 0,
              casual_word_count   |-> 0,
              contraction_count   |-> 0 ]
    IN  counts @@ ratio_features(counts)

\* the vectors of texts without a positive word
FeatureVectors ==
    { FeatureVector(w, s, 0, n, e, m, c) :
        w \in 0..MaxWords, s \in 0..MaxSentences, n \in 0..MaxWords,
        e \in 0..MaxExclamations, m \in 0..MaxEmoticons, c \in 0..MaxWords }

\* a word belongs to one of the two sentiment lexicons at most, only a word
\* can be written in capitals, and a text without a sentence has no word
Extractable(f) ==
    /\ f.positive_word_count + f.negative_word_count <= f.word_count
    /\ f.caps_words <= f.word_count
    /\ f.word_count > 0 => f.sentence_count > 0

score(f) == [sentiment |-> analyze_sentiment(f), formality |-> analyze_formality(f)]

InitScorers ==
    /\ tone_service = ToneAnalysisService
    /\ feature_vector \in {f \in FeatureVectors : Extractable(f)}
    /\ scored = score(feature_vector)
    /\ arg_text = <<>>
    /\ analysis = NoCall
    /\ IdleCalls
    /\ IdleRouter
    /\ IdleAuth
    /\ IdleThreads
    /\ IdleLanguageTool

\* the same text with one more of its words in the positive lexicon: every
\* other count stays, positive_ratio follows
OneMorePositiveWord ==
    /\ feature_vector.positive_word_count + feature_vector.negative_word_count
           < feature_vector.word_count
    /\ feature_vector' =
           LET counts == [feature_vector EXCEPT !.positive_word_count = @ + 1]
           IN  ratio_features(counts) @@ counts
    /\ scored' = score(feature_vector')
    /\ UNCHANGED <<tone_service, engineVars, callVars, routerVars, authVars, threadVars, ltVars>>

NextScorers == OneMorePositiveWord

SpecScorers == InitScorers /\ [][NextScorers]_vars

\* the features other than positive_word_count and positive_ratio
OtherFeatures == (DOMAIN feature_vector) \ {"positive_word_count", "positive_ratio"}

\* C5: of two feature vectors that differ only in positive_word_count (and
\* so in positive_ratio), the one with the larger count has a sentiment net
\* score at least as large as the other's.
C5_SentimentMonotone ==
    [][ ( /\ feature_vector'.positive_word_count > feature_vector.positive_word_count
          /\ \A k \in OtherFeatures : feature_vector'[k] = feature_vector[k] )
        => RLe(scored.sentiment.score, scored'.sentiment.score) ]_vars

\* the count went from below the negative count to above it, with
\* exclamation marks, an emoticon and capitals all in play
C5_Witness ==
    /\ feature_vector.word_count = 3
    /\ feature_vector.positive_word_count = 2
    /\ feature_vector.negative_word_count = 1
    /\ feature_vector.exclamation_count > 0
    /\ feature_vector.emoticon_count > 0
    /\ RGt(feature_vector.caps_ratio, Rat(1, 10))
    /\ scored.sentiment.category = "positive"

(***************************************************************************)
(* The formality scorer on feature vectors whose word lengths, sentence    *)
(* lengths and exclamation ratios lie on, and on both sides of, the        *)
(* thresholds it compares with.                                            *)
(***************************************************************************)
MaxLexiconWords == 4

\* word counts that put word_count / sentence_count on both sides of 8 and 15
WordCounts == {0, 1, 2, 8, 12, 16, 32}

\* mean word lengths around 4.0 and 5.5 (the letters of a text are a whole
\* number: the mean of an odd number of words is rounded down to one)
WordLengths == { RInt(3), RInt(4), RInt(5), Rat(11, 2), RInt(6) }

FormalityVector(words, length, sentence_count, formal, casual, contraction_count, exclamations, ellipsis) ==
    LET letters == (length.n * words) \div length.d
        counts ==
            [ word_count          |-> words,
              char_count          |-> letters + words + exclamations + 3 * ellipsis,
              sentence_count      |-> sentence_count,
              avg_word_length     |-> RDiv(RInt(letters), RInt(PyMax(words, 1))),
              exclamation_count   |-> exclamations,
              question_count      |-> 0,
              caps_words          |-> 0,
              ellipsis_count      |-> ellipsis,
              emoticon_count      |-> 0,
              positive_word_count |-> 0,
              negative_word_count |-> 0,
              formal_word_count   |-> formal,
              casual_word_count   |-> casual,
              contraction_count   |-> contraction_count ]
    IN  counts @@ ratio_features(counts)

\* a word belongs to one of the
\* formality lexicons at most and a contraction is two word tokens, neither
\* in a lexicon; a text without a sentence has no word
FormalityVectors ==
    { FormalityVector(w, l, s, f, c, k, e, el) :
        w \in WordCounts,
        l \in WordLengths, s \in 0..MaxSentences, f \in 0..MaxLexiconWords,
        c \in 0..MaxLexiconWords, k \in 0..1, e \in 0..MaxExclamations, el \in 0..1 }

FormalityExtractable(f) ==
    /\ f.formal_word_count + f.casual_word_count + 2 * f.contraction_count <= f.word_count
    /\ f.word_count > 0 => f.sentence_count > 0

InitFormality ==
    /\ tone_service = ToneAnalysisService
    /\ feature_vector \in {f \in FormalityVectors : FormalityExtractable(f)}
    /\ scored = NoCall
    /\ arg_text = <<>>
    /\ analysis = NoCall
    /\ IdleCalls
    /\ IdleRouter
    /\ IdleAuth
    /\ IdleThreads
    /\ IdleLanguageTool

\* self._analyze_formality(text, features)
AnalyzeFormality ==
    /\ scored = NoCall
    /\ scored' = analyze_formality(feature_vector)
    /\ UNCHANGED <<tone_service, feature_vector, engineVars, callVars, routerVars, authVars, threadVars, ltVars>>

NextFormality == AnalyzeFormality

SpecFormality == InitFormality /\ [][NextFormality]_vars

min_length == 1

max_length == 5000

max_items == 10

get_tone_service(instance) == IF instance = None THEN ToneAnalysisService ELSE instance

\* the body validates against ToneRequest
ToneRequest(text) == Len(text) >= min_length /\ Len(text) <= max_length

\* the body validates against BatchToneRequest
BatchToneRequest(texts) == Len(texts) <= max_items

\* detail: the pieces of the formatted message
HTTPException(status_code, detail) == [status_code |-> status_code, json |-> [detail |-> detail]]

\* FastAPI's answer to a body that fails validation; detail names the field
RequestValidationError(loc) == [status_code |-> 422, json |-> [detail |-> loc]]

\* tone_service.analyze_tone(text); fails: this call raises an Exception
\* (a MemoryError, a patched service), whatever the text
call_analyze_tone(self, text, fails) ==
    IF fails THEN Raise("RuntimeError", <<>>) ELSE analyze_tone(self, text)

ToneLabels(a) == [sentiment |-> a.sentiment, formality |-> a.formality]

\* without "except HTTPException: raise": the generic clause catches the 400
router_analyze_tone_catch_all(self, text, fails, time_ms) ==
    IF IsBlank(text)
    THEN [ response |-> HTTPException(500, <<"Tone analysis failed: ", "400: Text cannot be empty">>),
           served |-> <<>> ]
    ELSE Only({ IF a.raised # ""
                THEN [ response |-> HTTPException(500, <<"Tone analysis failed: ", a.raised>>),
                       served |-> <<text>> ]
                ELSE [ response |->
                           [ status_code |-> 200,
                             json |-> [ labels |-> ToneLabels(a), scores |-> a.scores,
                                        confidence |-> a.confidence, time_ms |-> time_ms,
                                        text_length |-> Len(text) ] ],
                       served |-> <<text>> ]
                : a \in {call_analyze_tone(self, text, fails)} })

\* analyze_tone, the handler of POST /tone
router_analyze_tone(self, text, fails, time_ms) ==
    IF IsBlank(text)
    THEN [response |-> HTTPException(400, <<"Text cannot be empty">>), served |-> <<>>]
    ELSE Only({ IF a.raised # ""
                THEN [ response |-> HTTPException(500, <<"Tone analysis failed: ", a.raised>>),
                       served |-> <<text>> ]
                ELSE [ response |->
                           [ status_code |-> 200,
                             json |-> [ labels |-> ToneLabels(a), scores |-> a.scores,
                                        confidence |-> a.confidence, time_ms |-> time_ms,
                                        text_length |-> Len(text) ] ],
                       served |-> <<text>> ]
                : a \in {call_analyze_tone(self, text, fails)} })

\* the handler of POST /tone/detailed
analyze_tone_detailed(self, text, fails, time_ms) ==
    IF IsBlank(text)
    THEN [response |-> HTTPException(400, <<"Text cannot be empty">>), served |-> <<>>]
    ELSE Only({ IF a.raised # ""
                THEN [ response |->
                           HTTPException(500, <<"Detailed tone analysis failed: ", a.raised>>),
                       served |-> <<text>> ]
                ELSE [ response |->
                           [ status_code |-> 200,
                             json |-> [ labels |-> ToneLabels(a), scores |-> a.scores,
                                        confidence |-> a.confidence, features |-> a.features,
                                        time_ms |-> time_ms, text_length |-> Len(text) ] ],
                       served |-> <<text>> ]
                : a \in {call_analyze_tone(self, text, fails)} })

\* the entry of an item that was not analysed
skipped_entry(text, reason) ==
    [ text |-> text,
      labels |-> [sentiment |-> "neutral", formality |-> "neutral"],
      scores |-> [sentiment |-> RInt(0), formality |-> RInt(0)],
      confidence |-> RInt(0), skipped |-> TRUE, reason |-> reason ]

analysed_entry(text, a) ==
    [ text |-> text, labels |-> ToneLabels(a), scores |-> a.scores,
      confidence |-> a.confidence, skipped |-> FALSE ]

\* the locals of analyze_tone_batch; raised: an exception on its way out of the loop
batch_locals ==
    [ results |-> <<>>, total_confidence |-> RInt(0), processed_count |-> 0,
      served |-> <<>>, raised |-> "" ]

\* without the inner try: the exception leaves the loop
batch_item_unguarded(self, text, fails, locals) ==
    IF IsBlank(text)
    THEN [locals EXCEPT !.results = Append(@, skipped_entry(text, <<"Empty text">>))]
    ELSE Only({ IF a.raised # ""
                THEN [locals EXCEPT !.served = Append(@, text), !.raised = a.raised]
                ELSE [locals EXCEPT !.results = Append(@, analysed_entry(text, a)),
                                    !.total_confidence = RAdd(@, a.confidence),
                                    !.processed_count = @ + 1,
                                    !.served = Append(@, text)]
                : a \in {call_analyze_tone(self, text, fails)} })

\* a failed analysis counted as processed
batch_item_counts_failures(self, text, fails, locals) ==
    IF IsBlank(text)
    THEN [locals EXCEPT !.results = Append(@, skipped_entry(text, <<"Empty text">>))]
    ELSE Only({ IF a.raised # ""
                THEN [locals EXCEPT
                         !.results = Append(@, skipped_entry(text, <<"Analysis failed: ", a.raised>>)),
                         !.processed_count = @ + 1,
                         !.served = Append(@, text)]
                ELSE [locals EXCEPT !.results = Append(@, analysed_entry(text, a)),
                                    !.total_confidence = RAdd(@, a.confidence),
                                    !.processed_count = @ + 1,
                                    !.served = Append(@, text)]
                : a \in {call_analyze_tone(self, text, fails)} })

\* the body of the loop over request.texts
batch_item(self, text, fails, locals) ==
    IF IsBlank(text)
    THEN [locals EXCEPT !.results = Append(@, skipped_entry(text, <<"Empty text">>))]
    ELSE Only({ IF a.raised # ""
                THEN [locals EXCEPT
                         !.results = Append(@, skipped_entry(text, <<"Analysis failed: ", a.raised>>)),
                         !.served = Append(@, text)]
                ELSE [locals EXCEPT !.results = Append(@, analysed_entry(text, a)),
                                    !.total_confidence = RAdd(@, a.confidence),
                                    !.processed_count = @ + 1,
                                    !.served = Append(@, text)]
                : a \in {call_analyze_tone(self, text, fails)} })

\* break in the place of continue: a blank item ends the loop
RECURSIVE batch_loop_break(_, _, _, _, _)
batch_loop_break(self, texts, raises, i, locals) ==
    IF i > Len(texts) \/ locals.raised # ""
    THEN locals
    ELSE IF IsBlank(texts[i])
    THEN batch_item(self, texts[i], i \in raises, locals)
    ELSE Only({ batch_loop_break(self, texts, raises, i + 1, l)
                : l \in {batch_item(self, texts[i], i \in raises, locals)} })

\* for i, text in enumerate(request.texts), from item i on
RECURSIVE batch_loop(_, _, _, _, _)
batch_loop(self, texts, raises, i, locals) ==
    IF i > Len(texts) \/ locals.raised # ""
    THEN locals
    ELSE Only({ batch_loop(self, texts, raises, i + 1, l)
                : l \in {batch_item(self, texts[i], i \in raises, locals)} })

\* without the "if not request.texts" test: an empty list runs the loop
analyze_tone_batch_no_empty_check(self, texts, raises, time_ms) ==
    IF Len(texts) > 10
    THEN [ response |->
               HTTPException(400, <<"Too many texts. Maximum 10 texts per batch request.">>),
           served |-> <<>> ]
    ELSE Only({ IF locals.raised # ""
                THEN [ response |->
                           HTTPException(500, <<"Batch tone analysis failed: ", locals.raised>>),
                       served |-> locals.served ]
                ELSE [ response |->
                           [ status_code |-> 200,
                             json |->
                                 [ results |-> locals.results, time_ms |-> time_ms,
                                   total_texts |-> Len(texts),
                                   successful_analyses |-> locals.processed_count,
                                   average_confidence |->
                                       RDiv(locals.total_confidence,
                                            RInt(PyMax(locals.processed_count, 1))) ] ],
                       served |-> locals.served ]
                : locals \in {batch_loop(self, texts, raises, 1, batch_locals)} })

\* the handler of POST /tone/batch; raises: the items whose analyze_tone call fails
analyze_tone_batch(self, texts, raises, time_ms) ==
    IF texts = <<>>
    THEN [response |-> HTTPException(400, <<"No texts provided">>), served |-> <<>>]
    ELSE IF Len(texts) > 10
    THEN [ response |->
               HTTPException(400, <<"Too many texts. Maximum 10 texts per batch request.">>),
           served |-> <<>> ]
    ELSE Only({ IF locals.raised # ""
                THEN [ response |->
                           HTTPException(500, <<"Batch tone analysis failed: ", locals.raised>>),
                       served |-> locals.served ]
                ELSE [ response |->
                           [ status_code |-> 200,
                             json |->
                                 [ results |-> locals.results, time_ms |-> time_ms,
                                   total_texts |-> Len(texts),
                                   successful_analyses |-> locals.processed_count,
                                   average_confidence |->
                                       RDiv(locals.total_confidence,
                                            RInt(PyMax(locals.processed_count, 1))) ] ],
                       served |-> locals.served ]
                : locals \in {batch_loop(self, texts, raises, 1, batch_locals)} })

(***************************************************************************)
(* One request to the tone router, on a process that has or has not yet    *)
(* built its service instance.                                             *)
(***************************************************************************)
MaxBatch == 3

MaxTimeMs == 1

RouterTexts ==
    { <<>>,
      <<" ">>,
      <<"g","r","e","a","t"," ","j","o","b">>,
      <<"b","a","d","!">> }

\* whitespace only, one character over max_length
LongBlank == [i \in 1..(max_length + 1) |-> " "]

SingleTexts == RouterTexts \cup {LongBlank}

\* max_items times "bad!": the largest batch the request model lets through
FullBatch == [i \in 1..max_items |-> <<"b","a","d","!">>]

\* one item over max_items
TooManyTexts == [i \in 1..(max_items + 1) |-> <<"b","a","d","!">>]

BatchTexts ==
    UNION { [1..n -> RouterTexts] : n \in 0..MaxBatch } \cup {FullBatch, TooManyTexts}

InitRouter ==
    /\ tone_service \in {None, ToneAnalysisService}
    /\ arg_text = <<>>
    /\ analysis = NoCall
    /\ IdleCalls
    /\ IdleScorers
    /\ IdleRouter
    /\ IdleAuth
    /\ IdleThreads
    /\ IdleLanguageTool

\* POST /tone
PostTone ==
    /\ response = NoCall
    /\ tone_service' = get_tone_service(tone_service)
    /\ \E text \in SingleTexts, fails \in BOOLEAN, time_ms \in 0..MaxTimeMs :
           /\ request' = [ path |-> "/tone", json |-> [text |-> text],
                           raises |-> IF fails THEN {1} ELSE {} ]
           /\ \E out \in { IF ToneRequest(text)
                           THEN router_analyze_tone(tone_service', text, fails, time_ms)
                           ELSE [ response |-> RequestValidationError(<<"body", "text">>),
                                  served |-> <<>> ] } :
                  response' = out.response /\ served' = out.served
    /\ UNCHANGED <<engineVars, callVars, scorerVars, authVars, threadVars, ltVars>>

\* POST /tone/detailed
PostToneDetailed ==
    /\ response = NoCall
    /\ tone_service' = get_tone_service(tone_service)
    /\ \E text \in SingleTexts, fails \in BOOLEAN, time_ms \in 0..MaxTimeMs :
           /\ request' = [ path |-> "/tone/detailed", json |-> [text |-> text],
                           raises |-> IF fails THEN {1} ELSE {} ]
           /\ \E out \in { IF ToneRequest(text)
                           THEN analyze_tone_detailed(tone_service', text, fails, time_ms)
                           ELSE [ response |-> RequestValidationError(<<"body", "text">>),
                                  served |-> <<>> ] } :
                  response' = out.response /\ served' = out.served
    /\ UNCHANGED <<engineVars, callVars, scorerVars, authVars, threadVars, ltVars>>

\* the items whose analysis may raise: any of the first MaxBatch of a batch
FailingItems(texts) ==
    SUBSET { i \in 1..Len(texts) : i <= MaxBatch }

\* POST /tone/batch
PostToneBatch ==
    /\ response = NoCall
    /\ tone_service' = get_tone_service(tone_service)
    /\ \E texts \in BatchTexts, time_ms \in 0..MaxTimeMs :
           \E raises \in FailingItems(texts) :
               /\ request' = [ path |-> "/tone/batch", json |-> [texts |-> texts],
                               raises |-> raises ]
               /\ \E out \in { IF BatchToneRequest(texts)
                               THEN analyze_tone_batch(tone_service', texts, raises, time_ms)
                               ELSE [ response |-> RequestValidationError(<<"body", "texts">>),
                                      served |-> <<>> ] } :
                      response' = out.response /\ served' = out.served
    /\ UNCHANGED <<engineVars, callVars, scorerVars, authVars, threadVars, ltVars>>

NextRouter == PostTone \/ PostToneDetailed \/ PostToneBatch

SpecRouter == InitRouter /\ [][NextRouter]_vars

(***************************************************************************)
(* get_tone_service under concurrent requests.  It is a plain def, so      *)
(* FastAPI resolves the dependency in a worker thread per request; a       *)
(* thread can be suspended between any two of its reads and writes of the  *)
(* module global _tone_service (the variable tone_service).                *)
(***************************************************************************)
MaxThreads == 2

MaxRequestsPerThread == 2

Threads == 1..MaxThreads

\* the k-th instance ToneAnalysisService() returned
NewToneAnalysisService(k) == ToneAnalysisService @@ [id |-> k]

InitThreads ==
    /\ tone_service = None
    /\ callers = [t \in Threads |-> [pc |-> "idle", new |-> None, returned |-> {}, n |-> 0]]
    /\ constructions = 0
    /\ arg_text = <<>>
    /\ analysis = NoCall
    /\ IdleCalls
    /\ IdleScorers
    /\ IdleRouter
    /\ IdleAuth
    /\ IdleLanguageTool

\* a request arrives and thread t is handed its get_tone_service call
Enter(t) ==
    /\ callers[t].pc = "idle"
    /\ callers[t].n < MaxRequestsPerThread
    /\ callers' = [callers EXCEPT ![t].pc = "test", ![t].n = @ + 1]
    /\ UNCHANGED <<tone_service, constructions>>
    /\ UNCHANGED <<engineVars, callVars, scorerVars, routerVars, authVars, ltVars>>

\* if _tone_service is None:
Test(t) ==
    /\ callers[t].pc = "test"
    /\ callers' = [callers EXCEPT ![t].pc = IF tone_service = None THEN "construct"
                                            ELSE "return"]
    /\ UNCHANGED <<tone_service, constructions>>
    /\ UNCHANGED <<engineVars, callVars, scorerVars, routerVars, authVars, ltVars>>

\* ToneAnalysisService(), the right-hand side of the assignment
Construct(t) ==
    /\ callers[t].pc = "construct"
    /\ constructions' = constructions + 1
    /\ callers' = [callers EXCEPT ![t].pc = "store",
                                  ![t].new = NewToneAnalysisService(constructions')]
    /\ UNCHANGED tone_service
    /\ UNCHANGED <<engineVars, callVars, scorerVars, routerVars, authVars, ltVars>>

\* _tone_service = <the new instance>
Store(t) ==
    /\ callers[t].pc = "store"
    /\ tone_service' = callers[t].new
    /\ callers' = [callers EXCEPT ![t].pc = "return", ![t].new = None]
    /\ UNCHANGED constructions
    /\ UNCHANGED <<engineVars, callVars, scorerVars, routerVars, authVars, ltVars>>

\* return _tone_service
Return(t) ==
    /\ callers[t].pc = "return"
    /\ callers' = [callers EXCEPT ![t].pc = "idle", ![t].returned = @ \cup {tone_service}]
    /\ UNCHANGED <<tone_service, constructions>>
    /\ UNCHANGED <<engineVars, callVars, scorerVars, routerVars, authVars, ltVars>>

NextThreads ==
    \E t \in Threads : Enter(t) \/ Test(t) \/ Construct(t) \/ Store(t) \/ Return(t)

SpecThreads == InitThreads /\ [][NextThreads]_vars

\* every instance a get_tone_service call has returned so far
Returned_instances == UNION { callers[t].returned : t \in Threads }

\* C27: the tone service is constructed exactly once per process:
\* get_tone_service creates the instance on first use, and every later call,
\* calls running concurrently with the first one included, returns that same
\* instance without constructing another.
C27_ConstructedOnce ==
    /\ constructions <= 1
    /\ Cardinality(Returned_instances) <= 1
    /\ \A t \in Threads : callers[t].returned \subseteq {tone_service}


Answered(path) == request # NoCall /\ response # NoCall /\ request.path = path

\* a batch request that validates and has an item: the handler's loop ran
BatchRan ==
    /\ Answered("/tone/batch")
    /\ request.json.texts # <<>>
    /\ Len(request.json.texts) <= max_items

Neutral == [sentiment |-> "neutral", formality |-> "neutral"]

Zero == [sentiment |-> RInt(0), formality |-> RInt(0)]

\* the entry of item i carries what analyze_tone returns for its text
CarriesAnalysis(entry, text) ==
    \E a \in {analyze_tone(ToneAnalysisService, text)} :
        /\ a.raised = ""
        /\ entry = [ text |-> text,
                     labels |-> [sentiment |-> a.sentiment, formality |-> a.formality],
                     scores |-> a.scores, confidence |-> a.confidence, skipped |-> FALSE ]

\* C6: in a batch, a blank item yields a skipped entry with reason "Empty
\* text", neutral/neutral, 0.0/0.0 and confidence 0.0; a non-blank item
\* (whose analysis does not fail) yields an unskipped entry with what
\* analyze_tone returns for it; a blank item never stops the items after it:
\* ["", "great job"] gives item 0 skipped and item 1 positive.
C6_BatchBlankSkipped ==
    BatchRan =>
        LET texts == request.json.texts
            results == response.json.results
        IN  /\ response.status_code = 200
            /\ Len(results) = Len(texts)
            /\ \A i \in DOMAIN texts :
                   IF IsBlank(texts[i])
                   THEN results[i] = [ text |-> texts[i], labels |-> Neutral, scores |-> Zero,
                                       confidence |-> RInt(0), skipped |-> TRUE,
                                       reason |-> <<"Empty text">> ]
                   ELSE i \notin request.raises => CarriesAnalysis(results[i], texts[i])
            /\ (texts = << <<>>, <<"g","r","e","a","t"," ","j","o","b">> >> /\ request.raises = {})
                   => /\ results[1].skipped
                      /\ ~results[2].skipped
                      /\ results[2].labels.sentiment = "positive"

C6_Witness ==
    /\ BatchRan
    /\ request.json.texts = << <<>>, <<"g","r","e","a","t"," ","j","o","b">> >>
    /\ request.raises = {}
    /\ response.status_code = 200
    /\ response.json.results[1].reason = <<"Empty text">>
    /\ response.json.results[2].labels.sentiment = "positive"
    /\ served = << <<"g","r","e","a","t"," ","j","o","b">> >>

\* the items whose analyze_tone call raised: a blank item has no call
Failed == {i \in request.raises : ~IsBlank(request.json.texts[i])}

\* the results of the same batch when no call fails
ResultsWithoutFailure ==
    analyze_tone_batch(ToneAnalysisService, request.json.texts, {}, 0).response.json.results

\* C7: when analyze_tone raises for an item of a batch, that item alone is
\* reported skipped with a reason beginning "Analysis failed:" and the
\* neutral zero-confidence placeholder; every other item is reported as it
\* is without the failure, and the response is returned complete.
C7_BatchFailureIsolated ==
    BatchRan =>
        LET texts == request.json.texts
            results == response.json.results
        IN  /\ response.status_code = 200
            /\ Len(results) = Len(texts)
            /\ response.json.total_texts = Len(texts)
            /\ \A i \in DOMAIN texts :
                   IF i \in Failed
                   THEN /\ results[i].skipped
                        /\ results[i].reason[1] = "Analysis failed: "
                        /\ results[i].text = texts[i]
                        /\ results[i].labels = Neutral
                        /\ results[i].scores = Zero
                        /\ results[i].confidence = RInt(0)
                   ELSE results[i] = ResultsWithoutFailure[i]

\* the middle item of three failed; the items around it were analysed
C7_Witness ==
    /\ BatchRan
    /\ Len(request.json.texts) = 3
    /\ Failed = {2}
    /\ response.status_code = 200
    /\ ~response.json.results[1].skipped
    /\ response.json.results[2].skipped
    /\ ~response.json.results[3].skipped
    /\ response.json.successful_analyses = 2

SingleAnswered == Answered("/tone") \/ Answered("/tone/detailed")

\* C8 as stated: every blank text gets the handler's 400 "Text cannot be
\* empty", with no call of analyze_tone.
C8_BlankIs400 ==
    (SingleAnswered /\ IsBlank(request.json.text)) =>
        /\ response.status_code = 400
        /\ response.json.detail = <<"Text cannot be empty">>
        /\ served = <<>>

\* C8 (amended): on /tone and /tone/detailed a blank text is rejected with a
\* client error before analyze_tone is called, and never with a 500: 422
\* from the request model when the text is empty or longer than 5000
\* characters, else the handler's 400 "Text cannot be empty", unchanged.
C8_BlankRejected ==
    (SingleAnswered /\ IsBlank(request.json.text)) =>
        /\ served = <<>>
        /\ IF Len(request.json.text) >= 1 /\ Len(request.json.text) <= 5000
           THEN /\ response.status_code = 400
                /\ response.json.detail = <<"Text cannot be empty">>
           ELSE response.status_code = 422

C8_Witness ==
    /\ Answered("/tone")
    /\ request.json.text = <<" ">>
    /\ request.raises = {1}
    /\ response.status_code = 400
    /\ response.json.detail = <<"Text cannot be empty">>
    /\ served = <<>>

\* C12: the batch operation accepts 1 to 10 texts: a request with more than
\* 10 texts, or with an empty list, is rejected with a client error and none
\* of its texts is analysed.
C12_BatchSize ==
    Answered("/tone/batch") =>
        IF Len(request.json.texts) = 0 \/ Len(request.json.texts) > 10
        THEN /\ response.status_code \in 400..499
             /\ served = <<>>
             /\ "results" \notin DOMAIN response.json
        ELSE response.status_code = 200

\* eleven times "bad!": rejected by the request model, nothing analysed
C12_Witness ==
    /\ Answered("/tone/batch")
    /\ Len(request.json.texts) = 11
    /\ \A i \in DOMAIN request.json.texts : ~IsBlank(request.json.texts[i])
    /\ response.status_code = 422
    /\ served = <<>>

\* the entries of a result list that are not skipped
Analysed(results) == { j \in DOMAIN results : ~results[j].skipped }

\* the sum of the confidences of the entries from i on that are not skipped
RECURSIVE ConfidenceSum(_, _)
ConfidenceSum(results, i) ==
    IF i > Len(results) THEN RInt(0)
    ELSE RAdd(IF results[i].skipped THEN RInt(0) ELSE results[i].confidence,
              ConfidenceSum(results, i + 1))

\* the locals of the batch handler after its loop has handled the first k texts
AfterItems(k) ==
    batch_loop(tone_service, SubSeq(request.json.texts, 1, k), request.raises, 1, batch_locals)

\* C28: after the batch loop has handled the first k texts, results has k
\* entries, entry j carries texts[j], and processed_count is the number of
\* entries not skipped; in the response total_texts = len(texts) =
\* len(results), successful_analyses plus the skipped entries is
\* total_texts, and average_confidence is the sum of the non-skipped
\* confidences over max(successful_analyses, 1) (0.0 when all are skipped).
C28_BatchBookkeeping ==
    (Answered("/tone/batch") /\ response.status_code = 200) =>
        LET texts == request.json.texts
            json == response.json
        IN  /\ \A k \in 0..Len(texts) :
                   \E l \in {AfterItems(k)} :
                       /\ Len(l.results) = k
                       /\ \A j \in 1..k : l.results[j].text = texts[j]
                       /\ l.processed_count = Cardinality(Analysed(l.results))
            /\ json.results = AfterItems(Len(texts)).results
            /\ json.total_texts = Len(texts)
            /\ json.total_texts = Len(json.results)
            /\ json.successful_analyses
                   + Cardinality(DOMAIN json.results \ Analysed(json.results))
                   = json.total_texts
            /\ json.successful_analyses = Cardinality(Analysed(json.results))
            /\ json.average_confidence =
                   RDiv(ConfidenceSum(json.results, 1),
                        RInt(IF json.successful_analyses > 1
                             THEN json.successful_analyses ELSE 1))
            /\ Analysed(json.results) = {} => json.average_confidence = RInt(0)

\* three texts: one blank, one whose analysis fails, one analysed
C28_Witness ==
    /\ Answered("/tone/batch")
    /\ response.status_code = 200
    /\ response.json.total_texts = 3
    /\ response.json.successful_analyses = 1
    /\ \E j \in 1..3 : IsBlank(request.json.texts[j])
    /\ \E j \in request.raises : ~IsBlank(request.json.texts[j])
    /\ RGt(response.json.average_confidence, RInt(0))

(***************************************************************************)
(* server/main.py: the token check in front of every /api router           *)
(***************************************************************************)
\* str.startswith(prefix)
startswith(s, prefix) == Len(s) >= Len(prefix) /\ SubSeq(s, 1, Len(prefix)) = prefix

\* str.partition(" "): what precedes the first space and what follows it
partition(s) ==
    IF \E i \in DOMAIN s : s[i] = " "
    THEN Only({ [head |-> SubSeq(s, 1, i - 1), tail |-> SubSeq(s, i + 1, Len(s))] :
                i \in { j \in DOMAIN s : s[j] = " " /\ \A k \in 1..(j - 1) : s[k] # " " } })
    ELSE [head |-> s, tail |-> <<>>]

\* security = HTTPBearer(auto_error=False): the credentials of the
\* Authorization header, None when the header is missing, has no scheme or no
\* credentials, or names another scheme than bearer (in any letter case)
HTTPBearer(headers) ==
    IF "Authorization" \notin DOMAIN headers
    THEN None
    ELSE Only({ IF p.head = <<>> \/ p.tail = <<>> \/ lower(p.head) # <<"b","e","a","r","e","r">>
                THEN None
                ELSE [scheme |-> p.head, credentials |-> p.tail] :
                p \in {partition(headers["Authorization"])} })

\* not os.getenv(key): the variable is unset (None) or set to ""
not_getenv(env, key) == key \notin DOMAIN env \/ env[key] = <<>>

\* the 401 of verify_token
Unauthorized ==
    [ status_code |-> 401,
      json |-> [detail |-> <<"Invalid or missing authentication token">>],
      headers |-> [WWW_Authenticate |-> "Bearer"] ]

\* without the "if not expected_token" test (an unset variable compares
\* unequal to every header and credential)
verify_token_no_config_check(env, req) ==
    IF startswith(req.url_path, <<"/","h","e","a","l","t","h">>) \/ req.method = "OPTIONS"
    THEN None
    ELSE IF /\ "LOCAL_API_TOKEN" \in DOMAIN env
            /\ "X-Local-Auth" \in DOMAIN req.headers
            /\ req.headers["X-Local-Auth"] # <<>>
            /\ req.headers["X-Local-Auth"] = env["LOCAL_API_TOKEN"]
    THEN None
    ELSE IF \E credentials \in {HTTPBearer(req.headers)} :
                /\ "LOCAL_API_TOKEN" \in DOMAIN env
                /\ credentials # None
                /\ credentials.credentials = env["LOCAL_API_TOKEN"]
    THEN None
    ELSE Unauthorized

\* verify_token(request, credentials = Depends(security)): None when it
\* returns (the request goes on to its handler), else the HTTPException raised
verify_token(env, req) ==
    IF startswith(req.url_path, <<"/","h","e","a","l","t","h">>) \/ req.method = "OPTIONS"
    THEN None
    ELSE IF not_getenv(env, "LOCAL_API_TOKEN")
    THEN HTTPException(500, <<"Server configuration error: API token not set">>)
    ELSE IF /\ "X-Local-Auth" \in DOMAIN req.headers
            /\ req.headers["X-Local-Auth"] # <<>>
            /\ req.headers["X-Local-Auth"] = env["LOCAL_API_TOKEN"]
    THEN None
    ELSE IF \E credentials \in {HTTPBearer(req.headers)} :
                /\ credentials # None
                /\ credentials.credentials = env["LOCAL_API_TOKEN"]
    THEN None
    ELSE Unauthorized

(***************************************************************************)
(* Requests to the /api routers under every setting of LOCAL_API_TOKEN     *)
(***************************************************************************)
\* values of LOCAL_API_TOKEN and of the credentials a client sends: two
\* tokens that differ in letter case only, a prefix of one, and ""
Tokens == { <<"t","o","k">>, <<"T","o","k">>, <<"t","o">>, <<>> }

\* os.environ: LOCAL_API_TOKEN unset, or set to one of Tokens
Environs == { <<>> } \cup { [LOCAL_API_TOKEN |-> t] : t \in Tokens }

\* routes of the routers mounted with prefix /api (routers/*.py)
ApiRoutes ==
    { [method |-> "POST", url_path |-> <<"/","a","p","i","/","t","o","n","e">>],
      [method |-> "POST", url_path |-> <<"/","a","p","i","/","c","h","e","c","k">>],
      [method |-> "GET",  url_path |-> <<"/","a","p","i","/","t","o","n","e","/","i","n","f","o">>],
      [method |-> "GET",  url_path |-> <<"/","a","p","i","/","r","e","w","r","i","t","e","/","m","o","d","e","s">>] }

Schemes ==
    { <<"B","e","a","r","e","r">>, <<"b","e","a","r","e","r">>, <<"B","a","s","i","c">> }

\* Authorization header values: a scheme and a token, a scheme alone, a
\* token alone
AuthorizationValues ==
    { s \o <<" ">> \o t : s \in Schemes, t \in Tokens \ {<<>>} }
        \cup Schemes \cup Tokens

\* the two headers verify_token looks at, each present or not
HeaderSets ==
    { x @@ a : x \in { <<>> } \cup { [n \in {"X-Local-Auth"} |-> t] : t \in Tokens },
               a \in { <<>> } \cup { [n \in {"Authorization"} |-> v] : v \in AuthorizationValues } }

Requests ==
    { [method |-> r.method, url_path |-> r.url_path, headers |-> h] :
      r \in ApiRoutes, h \in HeaderSets }

InitAuth ==
    /\ tone_service = None
    /\ arg_text = <<>>
    /\ analysis = NoCall
    /\ IdleCalls
    /\ IdleScorers
    /\ IdleRouter
    /\ environ \in Environs
    /\ auth = NoCall
    /\ IdleThreads
    /\ IdleLanguageTool

\* a request reaches an /api route: its verify_token dependency runs
VerifyToken ==
    /\ auth = NoCall
    /\ \E req \in Requests :
           /\ request' = req
           /\ auth' = verify_token(environ, req)
    /\ UNCHANGED <<tone_service, engineVars, callVars, scorerVars, served, response, environ,
                   threadVars, ltVars>>

NextAuth == VerifyToken

SpecAuth == InitAuth /\ [][NextAuth]_vars

(***************************************************************************)
(* Claims about access control                                             *)
(***************************************************************************)
Checked == auth # NoCall

\* LOCAL_API_TOKEN is set to a non-empty value
TokenSet == "LOCAL_API_TOKEN" \in DOMAIN environ /\ Len(environ["LOCAL_API_TOKEN"]) > 0

\* the X-Local-Auth header is the token, character for character
HeaderIsToken ==
    /\ "X-Local-Auth" \in DOMAIN request.headers
    /\ request.headers["X-Local-Auth"] = environ["LOCAL_API_TOKEN"]

\* the Authorization header is "Bearer <token>", the scheme in any letter case
BearerIsToken ==
    /\ "Authorization" \in DOMAIN request.headers
    /\ \E scheme \in { s \in Schemes : lower(s) = <<"b","e","a","r","e","r">> } :
           request.headers["Authorization"] = scheme \o <<" ">> \o environ["LOCAL_API_TOKEN"]

\* C14: a non-OPTIONS request to a protected path is let through if and only
\* if LOCAL_API_TOKEN is set to a non-empty value and the X-Local-Auth header
\* or the Bearer credential equals it exactly; with the token unset or empty
\* every such request fails with 500 whatever credentials it carries, and
\* otherwise a missing or non-matching credential fails with 401.
C14_AccessControl ==
    (Checked /\ request.method # "OPTIONS") =>
        /\ (auth = None) <=> (TokenSet /\ (HeaderIsToken \/ BearerIsToken))
        /\ ~TokenSet => auth # None /\ auth.status_code = 500
        /\ (TokenSet /\ ~(HeaderIsToken \/ BearerIsToken)) =>
               auth # None /\ auth.status_code = 401

\* the token is set; the request carries an X-Local-Auth that differs from it
\* in letter case only and the right Bearer credential: let through
C14_Witness ==
    /\ Checked
    /\ request.method = "POST"
    /\ TokenSet
    /\ "X-Local-Auth" \in DOMAIN request.headers
    /\ request.headers["X-Local-Auth"] # environ["LOCAL_API_TOKEN"]
    /\ lower(request.headers["X-Local-Auth"]) = lower(environ["LOCAL_API_TOKEN"])
    /\ BearerIsToken
    /\ auth = None

(***************************************************************************)
(* server/services/languagetool.py: LanguageToolService.  An exception is  *)
(* its type and the words of its message; "x in str(e)" looks for x among  *)
(* those words.  What the Java runtime and the language_tool_python        *)
(* library do is an input of each call.                                    *)
(***************************************************************************)
Exception(type, message) == [type |-> type, message |-> message]

\* "x in str(e)"
in_str(x, e) == \E i \in DOMAIN e.message : e.message[i] = x

\* LanguageToolService.__init__
LanguageToolService ==
    [_tool |-> None, _current_language |-> "en-US", _is_initialized |-> FALSE]

\* os.getenv(key, default)
getenv(env, key, default) == IF key \in DOMAIN env THEN env[key] ELSE default

\* what creating a tool can come to: the tool for the language asked, the
\* English-only tool of the fallback attempts, or every attempt failing
ToolCreations == {"created", "fallback", "failed"}

\* _create_language_tool(language): the instance after it, and what it raised
create_language_tool(self, language, creation) ==
    IF creation = "failed"
    THEN [ self |-> self,
           raised |-> Exception("RuntimeError",
                                <<"All", "LanguageTool", "initialization", "attempts", "failed.">>) ]
    ELSE [ self |-> [self EXCEPT
                        !._tool = [language |-> IF creation = "fallback" THEN "en" ELSE language],
                        !._current_language = language],
           raised |-> None ]

\* initialize(): java is what _check_java_availability returned; every
\* Exception is caught and leaves _is_initialized = False
initialize(self, env, java, creation) ==
    IF ~java
    THEN [ self |-> [self EXCEPT !._is_initialized = FALSE], raised |-> None, uses |-> <<>> ]
    ELSE Only({ IF made.raised # None
                THEN [ self |-> [made.self EXCEPT !._is_initialized = FALSE],
                       raised |-> None, uses |-> <<"LanguageTool">> ]
                ELSE [ self |-> [made.self EXCEPT !._is_initialized = TRUE],
                       raised |-> None, uses |-> <<"LanguageTool">> ]
                : made \in {create_language_tool(self, getenv(env, "LT_LANGUAGE", "en-US"),
                                                 creation)} })

\* a match of the tool: five replacements, of which three are kept
Match ==
    [ offset |-> 10, errorLength |-> 8, message |-> "Possible spelling mistake found.",
      replacements |-> <<"sentence", "sentience", "sent ance", "sentenced", "senescence">>,
      ruleId |-> "MORFOLOGIK_RULE_EN_US", category |-> "TYPOS" ]

\* what self._tool.check(text) can come to: a list of matches, or an error
\* whose text mentions Java, LanguageTool, or neither
ToolChecks ==
    { [matches |-> <<>>, raised |-> None], [matches |-> <<Match>>, raised |-> None] }
        \cup { [matches |-> <<>>, raised |-> Exception("Exception", <<w, "error">>)] :
               w \in {"Java", "LanguageTool", "Connection"} }

GrammarIssue(match) ==
    [ start |-> match.offset, end |-> match.offset + match.errorLength,
      message |-> match.message, replacements |-> SubSeq(match.replacements, 1, 3),
      rule_id |-> match.ruleId, category |-> match.category ]

\* the part of check_text that follows the _is_initialized test
check_text_initialized(self, text, language, creation, check) ==
    Only({ IF made.raised # None
           THEN [ self |-> made.self, raised |-> made.raised, issues |-> <<>>,
                  uses |-> <<"LanguageTool">> ]
           ELSE IF made.self._tool = None
           THEN [ self |-> made.self,
                  raised |-> Exception("AttributeError",
                                       <<"'NoneType'", "object", "has", "no", "attribute",
                                         "'check'">>),
                  issues |-> <<>>, uses |-> made.uses ]
           ELSE [ self |-> made.self, raised |-> check.raised,
                  issues |-> [i \in DOMAIN check.matches |-> GrammarIssue(check.matches[i])],
                  uses |-> Append(made.uses, "check") ]
           : made \in { IF language # "" /\ language # self._current_language
                        THEN create_language_tool(self, language, creation)
                                 @@ [uses |-> <<"LanguageTool">>]
                        ELSE [self |-> self, raised |-> None, uses |-> <<>>] } })

\* check_text(text, language): the instance after it, what it raised, the
\* issues it returned and the uses it made of the tool or its constructor
check_text(self, text, language, creation, check) ==
    IF ~self._is_initialized
    THEN [ self |-> self,
           raised |-> Exception("RuntimeError",
                                <<"LanguageTool", "service", "not", "initialized">>),
           issues |-> <<>>, uses |-> <<>> ]
    ELSE check_text_initialized(self, text, language, creation, check)

\* str.strip()
strip(s) ==
    IF IsBlank(s) THEN <<>>
    ELSE SubSeq(s, Kth({i \in DOMAIN s : s[i] \notin Whitespace}, 1),
                CHOOSE j \in DOMAIN s :
                    s[j] \notin Whitespace /\ \A k \in (j + 1)..Len(s) : s[k] \in Whitespace)

\* check_sentence(sentence, language)
service_check_sentence(self, sentence, language, creation, check) ==
    IF Len(strip(sentence)) < 3
    THEN [self |-> self, raised |-> None, issues |-> <<>>, uses |-> <<>>]
    ELSE check_text(self, sentence, language, creation, check)

\* get_languages()
get_languages(self) ==
    IF self._tool = None
    THEN <<"en-US", "en-GB">>
    ELSE <<"en-US", "en-GB", "en-CA", "en-AU", "de-DE", "fr-FR", "es-ES", "pt-BR",
           "it-IT", "nl-NL">>

\* a cleanup whose finally clause forgets the flag
cleanup_keeps_flag(self, closed) ==
    IF self._tool # None
    THEN [ self |-> [self EXCEPT !._tool = None], raised |-> None, uses |-> <<"close">> ]
    ELSE [ self |-> self, raised |-> None, uses |-> <<>> ]

\* cleanup(): closed is whether self._tool.close() returned or raised
cleanup(self, closed) ==
    IF self._tool # None
    THEN [ self |-> [self EXCEPT !._tool = None, !._is_initialized = FALSE],
           raised |-> None, uses |-> <<"close">> ]
    ELSE [ self |-> self, raised |-> None, uses |-> <<>> ]

(***************************************************************************)
(* server/routers/check.py                                                 *)
(***************************************************************************)
check_max_length == 10000

\* CheckRequest: text of at most 10,000 characters
CheckRequest(text) == Len(text) <= check_max_length

CheckResponse(issues, time_ms, language_used, text_length) ==
    [ status_code |-> 200,
      json |-> [ issues |-> [i \in DOMAIN issues |->
                                [k \in {"start", "end", "message", "replacements", "rule_id",
                                        "category"} |-> issues[i][k]]],
                 time_ms |-> time_ms, language_used |-> language_used,
                 text_length |-> text_length ] ]

\* the except branch of check_grammar
grammar_check_failed(e) ==
    IF in_str("Java", e)
    THEN HTTPException(503, <<"Grammar checking service unavailable: Java runtime not found. Please install Java JDK 17+.">>)
    ELSE IF in_str("LanguageTool", e)
    THEN HTTPException(503, <<"Grammar checking service temporarily unavailable. Please try again later.">>)
    ELSE HTTPException(500, <<"Grammar check failed: ">> \o e.message)

\* POST /check: the response, the service after it and its check_text call
check_grammar(self, text, language, creation, check, time_ms) ==
    IF IsBlank(text)
    THEN [ response |-> CheckResponse(<<>>, time_ms, language, 0), call |-> NoCall ]
    ELSE Only({ [ response |-> IF done.raised # None
                               THEN grammar_check_failed(done.raised)
                               ELSE CheckResponse(done.issues, time_ms, done.language_to_use,
                                                  Len(text)),
                  call |-> [ op |-> "check_text", before |-> self, after |-> done.self,
                             raised |-> done.raised, uses |-> done.uses ] ]
                : done \in { [language_to_use |-> l]
                                 @@ check_text(self, text, l, creation, check) :
                             l \in { IF language \in Range(get_languages(self))
                                     THEN language ELSE "en-US" } } })

\* POST /check/sentence
check_sentence(self, text, language, creation, check, time_ms) ==
    Only({ [ response |-> IF done.raised # None
                          THEN HTTPException(500, <<"Sentence check failed: ">> \o done.raised.message)
                          ELSE CheckResponse(done.issues, time_ms, language, Len(text)),
             call |-> [ op |-> "check_sentence", before |-> self, after |-> done.self,
                        raised |-> done.raised, uses |-> done.uses ] ]
           : done \in {service_check_sentence(self, text, language, creation, check)} })

\* Depends(get_languagetool_service): the instance of server.main, or the 503
get_languagetool_service(service) ==
    IF service = None
    THEN HTTPException(503, <<"LanguageTool service not available. Please check if Java is installed and the service is running.">>)
    ELSE service

(***************************************************************************)
(* Any sequence of initialize, check_text and cleanup on one instance      *)
(***************************************************************************)
\* os.environ: LT_LANGUAGE unset, or set to British English
LanguageEnvirons == { <<>>, [LT_LANGUAGE |-> "en-GB"] }

\* language codes of a request: two of the fallback list, one more of the
\* full list, one of neither, and ""
Languages == {"en-US", "en-GB", "de-DE", "xx-XX", ""}

\* texts to check: empty, blank, of fewer than 3 characters once stripped,
\* of 3 characters, and longer
CheckTexts ==
    { <<>>, <<" ", " ", " ", " ">>, <<" ", "a", "b", " ">>, <<"a", "b", "c">>,
      <<"A", " ", "t", "e", "s", "t", " ", "s", "e", "n", "t", "a", "n", "c", "e", ".">> }

\* the record of a call on the service
ServiceCall(op, self, out) ==
    [op |-> op, before |-> self, after |-> out.self, raised |-> out.raised, uses |-> out.uses]

InitLanguageTool ==
    /\ tone_service = None
    /\ arg_text = <<>>
    /\ analysis = NoCall
    /\ IdleCalls
    /\ IdleScorers
    /\ IdleRouter
    /\ environ \in LanguageEnvirons
    /\ auth = NoCall
    /\ IdleThreads
    /\ lt_service = LanguageToolService
    /\ lt_call = NoCall

Initialize ==
    /\ \E java \in BOOLEAN, creation \in ToolCreations :
           \E out \in {initialize(lt_service, environ, java, creation)} :
               /\ lt_service' = out.self
               /\ lt_call' = ServiceCall("initialize", lt_service, out)
    /\ UNCHANGED <<tone_service, engineVars, callVars, scorerVars, routerVars, authVars, threadVars>>

CheckText ==
    /\ \E text \in CheckTexts, language \in Languages, creation \in ToolCreations,
          check \in ToolChecks :
           \E out \in {check_text(lt_service, text, language, creation, check)} :
               /\ lt_service' = out.self
               /\ lt_call' = ServiceCall("check_text", lt_service, out)
    /\ UNCHANGED <<tone_service, engineVars, callVars, scorerVars, routerVars, authVars, threadVars>>

Cleanup ==
    /\ \E closed \in BOOLEAN :
           \E out \in {cleanup(lt_service, closed)} :
               /\ lt_service' = out.self
               /\ lt_call' = ServiceCall("cleanup", lt_service, out)
    /\ UNCHANGED <<tone_service, engineVars, callVars, scorerVars, routerVars, authVars, threadVars>>

NextLanguageTool == Initialize \/ CheckText \/ Cleanup

SpecLanguageTool == InitLanguageTool /\ [][NextLanguageTool]_vars

\* C29: under any sequence of initialize, check_text and cleanup in which
\* Java detection and tool creation may fail, initialize never raises,
\* _is_initialized holds only while a tool is held, cleanup leaves _tool None
\* and _is_initialized false, and check_text on an instance that is not
\* initialized raises RuntimeError without using the tool or its constructor.
C29_Lifecycle ==
    /\ lt_service._is_initialized => lt_service._tool # None
    /\ lt_call # NoCall =>
           /\ lt_call.op = "initialize" => lt_call.raised = None
           /\ lt_call.op = "cleanup" =>
                  lt_service._tool = None /\ ~lt_service._is_initialized
           /\ (lt_call.op = "check_text" /\ ~lt_call.before._is_initialized) =>
                  /\ lt_call.raised # None
                  /\ lt_call.raised.type = "RuntimeError"
                  /\ lt_call.uses = <<>>
                  /\ lt_call.after = lt_call.before

\* check_text on an instance that a failed second initialize left with the
\* tool of the first but not initialized
C29_Witness ==
    /\ lt_call # NoCall
    /\ lt_call.op = "check_text"
    /\ ~lt_call.before._is_initialized
    /\ lt_call.before._tool # None
    /\ lt_call.raised # None
    /\ lt_call.raised.type = "RuntimeError"
    /\ lt_service = lt_call.before

(***************************************************************************)
(* server/main.py lifespan and the requests served between its startup     *)
(* and its shutdown                                                        *)
(***************************************************************************)
InitCheck ==
    /\ tone_service = None
    /\ arg_text = <<>>
    /\ analysis = NoCall
    /\ IdleCalls
    /\ IdleScorers
    /\ IdleRouter
    /\ environ \in LanguageEnvirons
    /\ auth = NoCall
    /\ IdleThreads
    /\ IdleLanguageTool

\* the lifespan has run its shutdown half
Stopped == lt_call # NoCall /\ lt_call.op = "cleanup"

\* requests are served between startup and shutdown
Serving == lt_service # None /\ ~Stopped

\* lifespan, up to the yield: lt_service = LanguageToolService();
\* await lt_service.initialize()
Startup ==
    /\ lt_service = None
    /\ \E java \in BOOLEAN, creation \in ToolCreations :
           \E out \in {initialize(LanguageToolService, environ, java, creation)} :
               /\ lt_service' = out.self
               /\ lt_call' = ServiceCall("initialize", LanguageToolService, out)
    /\ UNCHANGED <<tone_service, engineVars, callVars, scorerVars, routerVars, authVars, threadVars>>

\* POST /api/check
PostCheck ==
    /\ Serving
    /\ response = NoCall
    /\ \E text \in CheckTexts, language \in Languages, creation \in ToolCreations,
          check \in ToolChecks, time_ms \in 0..MaxTimeMs :
           /\ request' = [path |-> "/check", json |-> [text |-> text, language |-> language]]
           /\ \E out \in { IF ~CheckRequest(text)
                           THEN [ response |-> RequestValidationError(<<"body", "text">>),
                                  call |-> NoCall ]
                           ELSE IF get_languagetool_service(lt_service) # lt_service
                           THEN [ response |-> get_languagetool_service(lt_service),
                                  call |-> NoCall ]
                           ELSE check_grammar(lt_service, text, language, creation, check,
                                              time_ms) } :
                  /\ response' = out.response
                  /\ lt_call' = IF out.call = NoCall THEN lt_call ELSE out.call
                  /\ lt_service' = IF out.call = NoCall THEN lt_service ELSE out.call.after
    /\ UNCHANGED <<tone_service, engineVars, callVars, scorerVars, served, authVars, threadVars>>

\* POST /api/check/sentence
PostCheckSentence ==
    /\ Serving
    /\ response = NoCall
    /\ \E text \in CheckTexts, language \in Languages, creation \in ToolCreations,
          check \in ToolChecks, time_ms \in 0..MaxTimeMs :
           /\ request' = [ path |-> "/check/sentence",
                           json |-> [text |-> text, language |-> language] ]
           /\ \E out \in { IF ~CheckRequest(text)
                           THEN [ response |-> RequestValidationError(<<"body", "text">>),
                                  call |-> NoCall ]
                           ELSE IF get_languagetool_service(lt_service) # lt_service
                           THEN [ response |-> get_languagetool_service(lt_service),
                                  call |-> NoCall ]
                           ELSE check_sentence(lt_service, text, language, creation, check,
                                               time_ms) } :
                  /\ response' = out.response
                  /\ lt_call' = IF out.call = NoCall THEN lt_call ELSE out.call
                  /\ lt_service' = IF out.call = NoCall THEN lt_service ELSE out.call.after
    /\ UNCHANGED <<tone_service, engineVars, callVars, scorerVars, served, authVars, threadVars>>

\* lifespan, after the yield: if lt_service: await lt_service.cleanup()
Shutdown ==
    /\ Serving
    /\ \E closed \in BOOLEAN :
           \E out \in {cleanup(lt_service, closed)} :
               /\ lt_service' = out.self
               /\ lt_call' = ServiceCall("cleanup", lt_service, out)
    /\ UNCHANGED <<tone_service, engineVars, callVars, scorerVars, routerVars, authVars, threadVars>>

NextCheck == Startup \/ PostCheck \/ PostCheckSentence \/ Shutdown

SpecCheck == InitCheck /\ [][NextCheck]_vars

\* a request was answered while the service was up but not initialized
AnsweredUninitialized ==
    /\ response # NoCall
    /\ Serving
    /\ ~lt_service._is_initialized

\* C30: when LanguageTool failed to initialize at startup, /check and
\* /check/sentence answer a request whose text has 3 or more characters once
\* stripped with 503, not 500.
C30_Unavailable503 ==
    (AnsweredUninitialized /\ Len(strip(request.json.text)) >= 3) =>
        response.status_code = 503

=============================================================================
